---- MODULE Spec2Model ----
(***************************************************************************)
(* jam-nodes core: the execution context (variable store, interpolation,   *)
(* node-output merging), the topological planner, the single-node executor *)
(* (retry / timeout / abort) and the workflow executor (waves, conditional *)
(* branching, failure propagation).                                        *)
(*                                                                         *)
(* Source: packages/core/src/execution (context.ts, execute-node.ts,       *)
(* execute-workflow.ts, topological-sort.ts).                              *)
(***************************************************************************)
EXTENDS Integers, Sequences, FiniteSets, TLC

VARIABLES
    wf,            \* the Workflow passed to executeWorkflow: [nodes, edges]
    cfg,           \* the WorkflowExecutionConfig
    pc,            \* position of executeWorkflow: "init", "launching", "awaiting", "returned", "thrown"
    waves,         \* const waves = topologicalSort(workflow)
    waveIdx,       \* index of the wave the for-loop is in (1-based)
    launchIdx,     \* index of the next wave member wave.map() calls
    statuses,      \* statuses[id]; "absent" before the run fills the map
    results,       \* results[id]; NoResult when the key is absent
    fired,         \* per node: number of onNodeComplete and of onNodeError calls
    skippedNodes,  \* the skippedNodes set
    task,          \* per node: the position of its wave promise
    variables,     \* ExecutionContext.variables
    aborted,       \* config.signal.aborted
    wfResult,      \* the value executeWorkflow resolved with
    invoked,       \* per node: number of node.executor calls
    started,       \* per node: number of onNodeStart calls
    waveStartVars, \* per node: the context's variables when its wave began
    waveStartAborted, \* per node: signal.aborted when its wave began
    ctxOp,         \* context-only runs: the last ExecutionContext method called
    ctxOps,        \* context-only runs: number of methods called so far
    calls,         \* direct executeNode calls: per call, its position and locals
    store,         \* the MemoryCacheStore's Map: key -> entry
    now,           \* Date.now()
    stale,         \* per node: executor invocations whose race was settled
                   \* by the timer or the abort listener
    nodeCtx,       \* context-only runs: the object toNodeContext returned
    interp,        \* context-only runs: the last interpolate call and its value
    twin,          \* repeated runs: the executors and what the first run returned
    runner,        \* the editor's WorkflowRunner: its run() locals
    cacheOp        \* direct use of the MemoryCacheStore: the last method called,
                   \* what it returned, and the last write of each key

vars == <<wf, cfg, pc, waves, waveIdx, launchIdx, statuses, results, fired, skippedNodes,
          task, variables, aborted, wfResult, invoked, started, waveStartVars,
          waveStartAborted, ctxOp, ctxOps, calls, store, now, stale,
          nodeCtx, interp, twin, runner, cacheOp>>

\* the state of direct executeNode calls and of the cache store
nodeVars == <<calls, store, now>>

\* the state of an executeWorkflow run
wfVars == <<wf, pc, waves, waveIdx, launchIdx, statuses, results, fired, skippedNodes,
            task, variables, wfResult, invoked, started, waveStartVars,
            waveStartAborted, stale>>

\* the state of a context-only run
ctxVars == <<ctxOp, ctxOps>>

\* the state that only the context calls below, the repeated runs and the
\* editor's runner change
sideVars == <<nodeCtx, interp, twin, runner, cacheOp>>

-----------------------------------------------------------------------------
(* Bounds of the model *)

\* largest retry.maxAttempts a configuration is drawn with
MaxAttempts == 2

\* number of ExecutionContext method calls in a context-only run
MaxCtxOps == 2

\* largest value of the clock
MaxClock == 2

\* largest number of parts of a template passed to interpolate
MaxParts == 2

-----------------------------------------------------------------------------
(* Values of the variable store.  A value is undefined, a string, a       *)
(* number (named by its decimal text), a plain object with string fields,  *)
(* or an array: one named by a tag whose elements are left out, or a list  *)
(* of strings kept under the index keys "0", "1", ...                      *)

Undef == [kind |-> "undefined", str |-> "", fields |-> {}]

Str(s) == [kind |-> "string", str |-> s, fields |-> {}]

Obj(fs) == [kind |-> "object", str |-> "", fields |-> fs]

Arr(tag) == [kind |-> "array", str |-> tag, fields |-> {}]

Num(text) == [kind |-> "number", str |-> text, fields |-> {}]

\* the keys of an array's elements
IndexKeys == <<"0", "1", "2">>

List(items) ==
    [kind |-> "array", str |-> "", fields |-> {<<IndexKeys[i], items[i]>> : i \in 1..Len(items)}]

\* Object.keys(o)
ObjKeys(o) == {p[1] : p \in o.fields}

\* o[k] of a plain object, as a stored value
ObjGet(o, k) ==
    IF o.kind = "object" /\ k \in ObjKeys(o)
    THEN Str((CHOOSE p \in o.fields : p[1] = k)[2])
    ELSE Undef

NodeIds == {"a", "b", "c"}

\* names the variable store is indexed by: the node ids and one field name
VarNames == NodeIds \cup {"value"}

-----------------------------------------------------------------------------
(* ExecutionContext *)

setVariable(vs, name, value) == [vs EXCEPT ![name] = value]

getVariable(vs, name) == IF name \in DOMAIN vs THEN vs[name] ELSE Undef

\* the merge loop of storeNodeOutput run before the id-keyed write
storeNodeOutputMergeFirst(vs, nodeId, output) ==
    LET merged == [k \in VarNames |->
                     IF output.kind = "object" /\ k \in ObjKeys(output)
                     THEN ObjGet(output, k) ELSE vs[k]]
    IN  setVariable(merged, nodeId, output)

storeNodeOutput(vs, nodeId, output) ==
    LET underId == setVariable(vs, nodeId, output)
    IN  IF output.kind = "object"
        THEN [k \in VarNames |->
                IF k \in ObjKeys(output) THEN ObjGet(output, k) ELSE underId[k]]
        ELSE underId

RECURSIVE walkPath(_, _)
walkPath(current, parts) ==
    IF parts = <<>> THEN current
    ELSE IF current.kind = "undefined" THEN Undef
    ELSE walkPath(ObjGet(current, Head(parts)), Tail(parts))

\* resolveNestedPath for a non-empty dotted path (no bracket parts)
resolveNestedPath(vs, path) == walkPath(getVariable(vs, Head(path)), Tail(path))

\* a template string is the sequence of its parts: stretches of literal
\* text and {{path}} references (paths are dotted names, never JSONPath)
Lit(s) == [ref |-> FALSE, lit |-> s, path |-> <<>>]

Ref(p) == [ref |-> TRUE, lit |-> "", path |-> p]

\* the order in which the keys of a plain object are listed
KeyOrder == <<"a", "b", "c", "value">>

\* the pieces joined with sep, in order
RECURSIVE JoinWith(_, _)
JoinWith(pieces, sep) ==
    IF pieces = <<>> THEN ""
    ELSE IF Len(pieces) = 1 THEN pieces[1]
    ELSE pieces[1] \o sep \o JoinWith(Tail(pieces), sep)

\* JSON.stringify of a plain object with string fields
stringify(o) ==
    LET present == SelectSeq(KeyOrder, LAMBDA k : k \in ObjKeys(o))
        member(k) == "\"" \o k \o "\":\"" \o ObjGet(o, k).str \o "\""
    IN  "{" \o JoinWith([i \in 1..Len(present) |-> member(present[i])], ",") \o "}"

formatValue(value) ==
    CASE value.kind = "undefined" -> ""
      [] value.kind = "string"    -> value.str
      [] value.kind = "number"    -> value.str
      [] value.kind = "array"     ->
            LET n == Cardinality(value.fields)
                element(i) == (CHOOSE p \in value.fields : p[1] = IndexKeys[i])[2]
            IN  JoinWith([i \in 1..n |-> element(i)], ", ")
      [] OTHER                    -> stringify(value)

\* the test for a single variable reference, never met
singleVarMatchNever(template) == FALSE

\* template.match(/^\{\{([^}]+)\}\}$/): the whole text is one reference
singleVarMatch(template) ==
    /\ Cardinality({i \in 1..Len(template) : template[i].ref}) = 1
    /\ \A i \in 1..Len(template) : ~template[i].ref => template[i].lit = ""

\* template.replace(regex, ...): every reference replaced by its formatted
\* value
RECURSIVE replaceAll(_, _)
replaceAll(vs, template) ==
    IF template = <<>> THEN ""
    ELSE LET part == Head(template)
             text == IF part.ref THEN formatValue(resolveNestedPath(vs, part.path))
                     ELSE part.lit
         IN  text \o replaceAll(vs, Tail(template))

interpolate(vs, template) ==
    IF singleVarMatch(template)
    THEN LET i == CHOOSE j \in 1..Len(template) : template[j].ref
         IN  resolveNestedPath(vs, template[i].path)
    ELSE Str(replaceAll(vs, template))

\* the node input is the object {upstream: template}; its resolved form is
\* the value of that one field
prepareNodeInput(nodeSettings, vs) == interpolate(vs, nodeSettings)

-----------------------------------------------------------------------------
(* topologicalSort *)

NoCond == "undefined"

Edge(f, t, c) == [from |-> f, to |-> t, condition |-> c]

\* adjacency.get(id): the targets of id's edges, in edge order
Adjacency(edges, id) ==
    LET F[i \in 0..Len(edges)] ==
          IF i = 0 THEN <<>>
          ELSE IF edges[i].from = id THEN Append(F[i-1], edges[i].to) ELSE F[i-1]
    IN  F[Len(edges)]

\* the in-degree map left at its initial zeros
InDegreeAllZero(nodes, edges) == [id \in {nodes[i] : i \in 1..Len(nodes)} |-> 0]

\* the in-degree map counting the parents of a node instead of its edges
InDegreeOfParents(nodes, edges) ==
    [id \in {nodes[i] : i \in 1..Len(nodes)} \cup {edges[i].to : i \in 1..Len(edges)} |->
        Cardinality({edges[i].from : i \in {j \in 1..Len(edges) : edges[j].to = id}})]

\* the in-degree map after the loop over the edges: a key for every declared
\* id and, through inDegree.set(edge.to, ...), for every edge target
InDegree(nodes, edges) ==
    [id \in {nodes[i] : i \in 1..Len(nodes)} \cup {edges[i].to : i \in 1..Len(edges)} |->
        Cardinality({i \in 1..Len(edges) : edges[i].to = id})]

\* the neighbors visited while a wave is processed, in visiting order
RECURSIVE NeighborsOf(_, _)
NeighborsOf(edges, queue) ==
    IF queue = <<>> THEN <<>>
    ELSE Adjacency(edges, Head(queue)) \o NeighborsOf(edges, Tail(queue))

\* every decremented neighbor is queued, whatever in-degree it has left
RECURSIVE DecrementQueuesAll(_, _, _)
DecrementQueuesAll(neighbors, inDegree, nextQueue) ==
    IF neighbors = <<>> THEN [inDegree |-> inDegree, nextQueue |-> nextQueue]
    ELSE LET n == Head(neighbors)
         IN  DecrementQueuesAll(Tail(neighbors),
                                [inDegree EXCEPT ![n] = inDegree[n] - 1],
                                Append(nextQueue, n))

RECURSIVE Decrement(_, _, _)
Decrement(neighbors, inDegree, nextQueue) ==
    IF neighbors = <<>> THEN [inDegree |-> inDegree, nextQueue |-> nextQueue]
    ELSE LET n == Head(neighbors)
             newDegree == inDegree[n] - 1
         IN  Decrement(Tail(neighbors), [inDegree EXCEPT ![n] = newDegree],
                       IF newDegree = 0 THEN Append(nextQueue, n) ELSE nextQueue)

RECURSIVE KahnLoop(_, _, _, _, _)
KahnLoop(edges, queue, inDegree, acc, processed) ==
    IF queue = <<>> THEN [waves |-> acc, processed |-> processed]
    ELSE LET r == Decrement(NeighborsOf(edges, queue), inDegree, <<>>)
         IN  KahnLoop(edges, r.nextQueue, r.inDegree, Append(acc, queue),
                      processed + Len(queue))

\* the check that turns unprocessed nodes into the cycle error, dropped
CycleCheckNever(processed, size) == FALSE

CycleCheck(processed, size) == processed # size

\* the errors topologicalSort throws: its own Error, and the TypeError of
\* reading adjacency.get(id)! for an id that is no key of adjacency
CycleError == "Workflow graph contains a cycle"

TypeError == "TypeError"

\* adjacency has a key for every declared id only: adjacency.get(edge.from)!
\* throws in the loop over the edges for an undeclared source, and
\* adjacency.get(id)! throws in the loop over a wave for an undeclared target
\* that was queued (KahnLoop goes on as if its adjacency were empty, which
\* changes nothing before that wave)
topologicalSort(workflow) ==
    LET nodeIds == {workflow.nodes[i] : i \in 1..Len(workflow.nodes)}
        deg == InDegree(workflow.nodes, workflow.edges)
        first == SelectSeq(workflow.nodes, LAMBDA id : deg[id] = 0)
        k == KahnLoop(workflow.edges, first, deg, <<>>, 0)
    IN  IF \E i \in 1..Len(workflow.edges) : workflow.edges[i].from \notin nodeIds
        THEN [threw |-> TRUE, error |-> TypeError, waves |-> <<>>]
        ELSE IF \E w \in 1..Len(k.waves) : \E j \in 1..Len(k.waves[w]) :
                    k.waves[w][j] \notin nodeIds
        THEN [threw |-> TRUE, error |-> TypeError, waves |-> <<>>]
        ELSE IF CycleCheck(k.processed, Cardinality(nodeIds))
        THEN [threw |-> TRUE, error |-> CycleError, waves |-> <<>>]
        ELSE [threw |-> FALSE, error |-> "", waves |-> k.waves]

-----------------------------------------------------------------------------
(* Workflows and configurations the runs are drawn from *)

\* the raw input of each workflow node
NodeInput(id) ==
    CASE id = "a" -> <<Ref(<<"value">>)>>
      [] id = "b" -> <<Ref(<<"a", "value">>)>>
      [] OTHER    -> <<Ref(<<"a">>)>>

\* the input schema of each node: "string?" is z.string().optional()
NodeSchema(id) == IF id = "c" THEN "string?" ELSE "any"

\* node.inputSchema.parse(input) returns (TRUE) or throws (FALSE)
parseOk(schema, value) == schema = "any" \/ value.kind \in {"string", "undefined"}

\* what an executor may put in result.output
OutputsOf(id) ==
    IF id = "a" THEN {Undef, Obj({<<"value", "a">>})}
    ELSE {Obj({<<"value", id>>}), Obj({<<"a", "x">>})}

NoNext == "undefined"

\* what an executor may put in result.nextNodeId
NextIdsOf(id) == IF id = "a" THEN {NoNext, "b", "c"} ELSE {NoNext}

CandEdges ==
    << Edge("a", "b", "b"), Edge("a", "c", "c"), Edge("a", "c", NoCond),
       Edge("b", "c", NoCond), Edge("c", "a", NoCond) >>

PickEdges(S) ==
    LET F[i \in 0..Len(CandEdges)] ==
          IF i = 0 THEN <<>>
          ELSE IF i \in S THEN Append(F[i-1], CandEdges[i]) ELSE F[i-1]
    IN  F[Len(CandEdges)]

NodeLists == {<<>>, <<"a">>, <<"a", "b", "c">>}

IdsOf(nodes) == {nodes[i] : i \in 1..Len(nodes)}

Workflows ==
    {w \in [nodes : NodeLists, edges : {PickEdges(S) : S \in SUBSET (1..Len(CandEdges))}] :
        \A i \in 1..Len(w.edges) :
            w.edges[i].from \in IdsOf(w.nodes) /\ w.edges[i].to \in IdsOf(w.nodes)}

\* cfg.timeout in milliseconds; 0 is "no timeout" (test.ts uses 50)
TimeoutValues == {0, 50}

\* the observer callbacks of a configuration
Callbacks == {"onNodeStart", "onNodeComplete", "onNodeError", "onRetry"}

\* configurations of workflow runs: no cache, retry.maxAttempts >= 1 and
\* observer callbacks that return (throws is the set of those that throw)
Configs ==
    [stopOnError : {"undefined", "true", "false"},
     timeout : TimeoutValues,
     signal : BOOLEAN,
     maxAttempts : 1..MaxAttempts,
     cache : {FALSE}, ttlMs : {1}, callers : {0}, throws : {{}}]

-----------------------------------------------------------------------------
(* executeNode / executeWithRetry / executeWithTimeout *)

NoResult ==
    [present |-> FALSE, success |-> FALSE, output |-> Undef, error |-> "",
     nextNodeId |-> NoNext]

Success(output, next) ==
    [present |-> TRUE, success |-> TRUE, output |-> output, error |-> "",
     nextNodeId |-> next]

Failure(message) ==
    [present |-> TRUE, success |-> FALSE, output |-> Undef, error |-> message,
     nextNodeId |-> NoNext]

\* per node: where its wave promise is ("idle", "exec", "sleep", "rejected",
\* "done"), the retry loop's attempt and the interpolated input
IdleTask == [pc |-> "idle", attempt |-> 0, input |-> Undef]

\* an executor invocation its race has left behind: `by` is what settled
\* the race ("timer" or "abort") at that attempt
Abandoned(by, attempt) == [by |-> by, attempt |-> attempt]

\* no left-behind invocation has settled yet
NoLate == [id |-> "", by |-> "", attempt |-> 0, threw |-> FALSE, result |-> NoResult]

\* the left-behind invocations of each node that are still running, and the
\* one that settled last with what it settled with
NoStale == [running |-> [id \in NodeIds |-> {}], late |-> NoLate]

\* what one attempt's Promise.race can settle with: a result the executor
\* returned, or a rejection (the executor threw, the timer or the abort
\* listener fired)
Returned(r) == [threw |-> FALSE, result |-> r]

Rejected(message) == [threw |-> TRUE, result |-> Failure(message)]

\* `Execution timed out after ${timeoutMs}ms`
TimeoutMessage(timeoutMs) == "Execution timed out after " \o ToString(timeoutMs) \o "ms"

\* what the executor of a workflow node may settle with
ExecutorSettlements(id) ==
    {Returned(Success(o, n)) : o \in OutputsOf(id), n \in NextIdsOf(id)}
    \cup {Returned(Failure("E")), Rejected("E")}

\* a race the abort listener takes no part in
RaceOutcomesIgnoringAbort(id) ==
    ExecutorSettlements(id)
    \cup (IF cfg.timeout # 0 THEN {Rejected(TimeoutMessage(cfg.timeout))} ELSE {})

RaceOutcomes(id) ==
    LET executor == ExecutorSettlements(id)
        timer == IF cfg.timeout # 0 THEN {Rejected(TimeoutMessage(cfg.timeout))} ELSE {}
    IN  IF cfg.signal /\ aborted
        THEN {Rejected("Execution aborted")}
        ELSE executor \cup timer

\* which promise of the race settled it with o
raceWinner(o) ==
    IF ~o.threw THEN "executor"
    ELSE IF o.result.error = "Execution aborted" THEN "abort"
    ELSE IF cfg.timeout # 0 /\ o.result.error = TimeoutMessage(cfg.timeout) THEN "timer"
    ELSE "executor"


-----------------------------------------------------------------------------
(* MemoryCacheStore *)

\* JSON.stringify of a string input
defaultKeyFn(input) == "\"" \o input.str \o "\""

\* the raw inputs executeNode is called with directly; the node's schema is
\* z.string().optional(), so the array fails validation
RawInputs == {Str("p"), Str("q"), Arr("l")}

CacheKeys == {defaultKeyFn(i) : i \in {x \in RawInputs : x.kind = "string"}}

NoEntry == [present |-> FALSE, value |-> NoResult, expireAt |-> 0]

EmptyStore == [k \in CacheKeys |-> NoEntry]

\* a lookup that never finds the entry
cacheGetNeverHits(st, key, t) == [value |-> NoResult, store |-> st]

\* a lookup that takes an entry for expired as soon as its TTL has passed
cacheGetExpiresAtTtl(st, key, t) ==
    LET entry == st[key]
    IN  IF ~entry.present THEN [value |-> NoResult, store |-> st]
        ELSE IF t >= entry.expireAt
             THEN [value |-> NoResult, store |-> [st EXCEPT ![key] = NoEntry]]
             ELSE [value |-> entry.value, store |-> st]

\* get(key) at time t: the value returned (NoResult is undefined) and the Map
\* after the lazy eviction
cacheGet(st, key, t) ==
    LET entry == st[key]
    IN  IF ~entry.present THEN [value |-> NoResult, store |-> st]
        ELSE IF t > entry.expireAt
             THEN [value |-> NoResult, store |-> [st EXCEPT ![key] = NoEntry]]
             ELSE [value |-> entry.value, store |-> st]

\* set(key, value, ttlMs) at time t
cacheSet(st, key, value, ttlMs, t) ==
    [st EXCEPT ![key] = [present |-> TRUE, value |-> value, expireAt |-> t + ttlMs]]

\* delete(key)
cacheDelete(st, key) == [st EXCEPT ![key] = NoEntry]

-----------------------------------------------------------------------------
(* executeNode called directly.  Each call is a record: its position pc    *)
(* ("new", "get", "race", "sleep", "set", "returned", "thrown"), the       *)
(* locals of executeNode and executeWithRetry, and what the caller's       *)
(* executor and onRetry observed:                                          *)
(*   execs   - per executor invocation (one per attempt), whether it is    *)
(*             still running and what it settled with                      *)
(*   races   - per attempt, which promise settled its Promise.race         *)
(*             ("executor", "timer" or "abort")                            *)
(*   retries - the attempt numbers onRetry was called with                 *)

\* the callers: each makes executeNode calls one after the other, and the
\* callers run concurrently
Calls == {1, 2}

NewCall ==
    [pc |-> "new", input |-> Undef, key |-> "", got |-> NoResult, lookups |-> 0,
     attempt |-> 0, invoked |-> 0, execs |-> <<>>, races |-> <<>>,
     retries |-> <<>>, result |-> NoResult]

NoCalls == [c \in Calls |-> NewCall]

InFlight == [state |-> "running", threw |-> FALSE, result |-> NoResult]

Settled(o) == [state |-> "settled", threw |-> o.threw, result |-> o.result]

\* what the executor may settle with
ExecutorOutcomes ==
    {Returned(Success(Obj({<<"value", v>>}), NoNext)) : v \in {"x", "y"}}
    \cup {Returned(Failure("E")), Returned(Failure("")), Rejected("E")}

NodeConfigs ==
    [cache : BOOLEAN, ttlMs : {1}, maxAttempts : 0..MaxAttempts,
     timeout : TimeoutValues, signal : BOOLEAN, callers : {1},
     stopOnError : {"undefined"}, throws : {{}}]

\* the result stored whatever its success flag
finishCachesAll(call, r) ==
    IF cfg.cache
    THEN [call EXCEPT !.pc = "set", !.result = r]
    ELSE [call EXCEPT !.pc = "returned", !.result = r]

\* executeWithRetry returned r to executeNode: lines 72-81
finish(call, r) ==
    IF cfg.cache /\ r.success
    THEN [call EXCEPT !.pc = "set", !.result = r]
    ELSE [call EXCEPT !.pc = "returned", !.result = r]

\* the store after executeNode's step took the call to newCall: store.set is
\* called when the call starts to await it
storeAfter(newCall) ==
    IF newCall.pc = "set"
    THEN cacheSet(store, newCall.key, newCall.result, cfg.ttlMs, now)
    ELSE store

\* the loop entered without testing attempt <= maxAttempts
loopHeadNoBound(call, attempt) ==
    IF cfg.signal /\ aborted THEN finish(call, Failure("Execution aborted"))
    ELSE [call EXCEPT !.pc = "race", !.attempt = attempt, !.invoked = @ + 1,
                      !.execs = Append(@, InFlight)]

\* the loop without the check of config.signal.aborted
loopHeadNoAbortCheck(call, attempt) ==
    IF attempt > cfg.maxAttempts THEN finish(call, Failure("Execution failed"))
    ELSE [call EXCEPT !.pc = "race", !.attempt = attempt, !.invoked = @ + 1,
                      !.execs = Append(@, InFlight)]

\* the head of the retry loop at iteration `attempt`: lines 102-108 and 138
loopHead(call, attempt) ==
    IF attempt > cfg.maxAttempts THEN finish(call, Failure("Execution failed"))
    ELSE IF cfg.signal /\ aborted THEN finish(call, Failure("Execution aborted"))
    ELSE [call EXCEPT !.pc = "race", !.attempt = attempt, !.invoked = @ + 1,
                      !.execs = Append(@, InFlight)]

\* retry.retryOn is a predicate on the error; it is named here by the set of
\* error messages it returns true for
NoRetryOn == [configured |-> FALSE, accepts |-> {}]

\* const retryOn = config?.retry?.retryOn: line 98
retryOn == IF "retryOn" \in DOMAIN cfg THEN cfg.retryOn ELSE NoRetryOn

\* a predicate that is never consulted
retryAllowedAlways(message) == TRUE

\* `!retryOn || retryOn(error)`: lines 113 and 127
retryAllowed(message) == ~retryOn.configured \/ message \in retryOn.accepts

\* the retry announced to nobody: onRetry is not called
afterRaceWithoutOnRetry(call, by, o) ==
    LET retriable == IF o.threw THEN TRUE
                     ELSE ~o.result.success /\ o.result.error # ""
        raced == [call EXCEPT !.races = Append(@, by)]
    IN  IF retriable /\ call.attempt < cfg.maxAttempts /\ retryAllowed(o.result.error)
        THEN [raced EXCEPT !.pc = "sleep"]
        ELSE finish(raced, o.result)

\* onRetry called with a zero-based attempt number
afterRaceCountsFromZero(call, by, o) ==
    LET retriable == IF o.threw THEN TRUE
                     ELSE ~o.result.success /\ o.result.error # ""
        raced == [call EXCEPT !.races = Append(@, by)]
    IN  IF retriable /\ call.attempt < cfg.maxAttempts
        THEN [raced EXCEPT !.pc = "sleep", !.retries = Append(@, call.attempt - 1)]
        ELSE finish(raced, o.result)

\* the attempt's Promise.race settled with o: lines 108-135
afterRace(call, by, o) ==
    LET retriable == IF o.threw THEN TRUE
                     ELSE ~o.result.success /\ o.result.error # ""
        raced == [call EXCEPT !.races = Append(@, by)]
    IN  IF retriable /\ call.attempt < cfg.maxAttempts /\ retryAllowed(o.result.error)
        THEN [raced EXCEPT !.pc = "sleep", !.retries = Append(@, call.attempt)]
        ELSE finish(raced, o.result)

\* a settlement of invocation k is taken by every race
raceOpenAnyAttempt(call, k) == call.pc \in {"race", "sleep", "returned"}

\* the executor invocation k is the one the pending Promise.race holds
raceOpen(call, k) == call.pc = "race" /\ call.attempt = k

\* no continuation of an awaited store.get / store.set is pending
Quiescent == \A c \in Calls : calls[c].pc \notin {"get", "set"}

\* executeNode(node, input, context, config) up to its first await
NodeCall(c) ==
    /\ pc = "node"
    /\ c <= cfg.callers
    /\ calls[c].pc \in {"new", "returned", "thrown"}
    /\ \E input \in RawInputs :
          IF ~parseOk("string?", input)
          THEN /\ calls' = [calls EXCEPT ![c] =
                     [NewCall EXCEPT !.pc = "thrown", !.input = input,
                                     !.result = Failure("ZodError")]]
               /\ UNCHANGED store
          ELSE LET entered == [NewCall EXCEPT !.input = input,
                                              !.key = defaultKeyFn(input)]
               IN  IF cfg.cache
                   THEN LET g == cacheGet(store, entered.key, now)
                        IN  /\ calls' = [calls EXCEPT ![c] =
                                  [entered EXCEPT !.pc = "get", !.got = g.value,
                                                  !.lookups = 1]]
                            /\ store' = g.store
                   ELSE /\ calls' = [calls EXCEPT ![c] = loopHead(entered, 1)]
                        /\ UNCHANGED store
    /\ UNCHANGED <<cfg, aborted, now, wfVars, ctxVars, sideVars>>

\* the continuation of the lookup without `if (cached) return cached`
CacheGetReturnsIgnoringHit(c) ==
    /\ calls[c].pc = "get"
    /\ calls' = [calls EXCEPT ![c] = loopHead(calls[c], 1)]
    /\ UNCHANGED <<cfg, aborted, store, now, wfVars, ctxVars, sideVars>>

\* the continuation of `await store.get(cacheKey)`: lines 70-72
CacheGetReturns(c) ==
    /\ calls[c].pc = "get"
    /\ calls' = [calls EXCEPT ![c] =
          IF calls[c].got.present
          THEN [calls[c] EXCEPT !.pc = "returned", !.result = calls[c].got]
          ELSE loopHead(calls[c], 1)]
    /\ UNCHANGED <<cfg, aborted, store, now, wfVars, ctxVars, sideVars>>

\* the promise of executor invocation k settles with one of `outcomes`
ExecutorSettlesWith(c, outcomes) ==
    /\ \E k \in 1..Len(calls[c].execs), o \in outcomes :
          /\ calls[c].execs[k] = InFlight
          /\ LET settled == [calls[c] EXCEPT !.execs[k] = Settled(o)]
                 newCall == IF raceOpen(calls[c], k)
                            THEN afterRace(settled, "executor", o)
                            ELSE settled
             IN  /\ calls' = [calls EXCEPT ![c] = newCall]
                 /\ store' = storeAfter(newCall)
    /\ UNCHANGED <<cfg, aborted, now, wfVars, ctxVars, sideVars>>

ExecutorSettles(c) == ExecutorSettlesWith(c, ExecutorOutcomes)

\* a timer armed whether or not config.timeout is set
TimerFiresUnset(c) ==
    /\ Quiescent
    /\ calls[c].pc = "race"
    /\ calls' = [calls EXCEPT ![c] =
          afterRace(calls[c], "timer", Rejected(TimeoutMessage(cfg.timeout)))]
    /\ UNCHANGED <<cfg, aborted, store, now, wfVars, ctxVars, sideVars>>

\* the timer of the pending attempt fires: lines 160-169
TimerFires(c) ==
    /\ Quiescent
    /\ calls[c].pc = "race"
    /\ cfg.timeout # 0
    /\ calls' = [calls EXCEPT ![c] =
          afterRace(calls[c], "timer", Rejected(TimeoutMessage(cfg.timeout)))]
    /\ UNCHANGED <<cfg, aborted, store, now, wfVars, ctxVars, sideVars>>

\* the caller aborts config.signal: the abort listener of every pending race
\* rejects it (lines 171-181)
NodeAbort ==
    /\ pc = "node"
    /\ Quiescent
    /\ cfg.signal
    /\ ~aborted
    /\ aborted' = TRUE
    /\ calls' = [c \in Calls |->
          IF calls[c].pc = "race"
          THEN afterRace(calls[c], "abort", Rejected("Execution aborted"))
          ELSE calls[c]]
    /\ UNCHANGED <<cfg, store, now, wfVars, ctxVars, sideVars>>

\* the backoff sleep is over: line 117/130, then the next iteration
NodeWake(c) ==
    /\ Quiescent
    /\ calls[c].pc = "sleep"
    /\ calls' = [calls EXCEPT ![c] = loopHead(calls[c], calls[c].attempt + 1)]
    /\ UNCHANGED <<cfg, aborted, store, now, wfVars, ctxVars, sideVars>>

\* the continuation of `await store.set(...)`: lines 75-78
CacheSetReturns(c) ==
    /\ calls[c].pc = "set"
    /\ calls' = [calls EXCEPT ![c] = [@ EXCEPT !.pc = "returned"]]
    /\ UNCHANGED <<cfg, aborted, store, now, wfVars, ctxVars, sideVars>>

\* a millisecond passes; the clock is only read against stored entries
Tick ==
    /\ pc = "node"
    /\ Quiescent
    /\ now < MaxClock
    /\ \E k \in CacheKeys : store[k].present
    /\ now' = now + 1
    /\ UNCHANGED <<cfg, aborted, calls, store, wfVars, ctxVars, sideVars>>

-----------------------------------------------------------------------------
(* executeWorkflow *)

RECURSIVE markDownstreamSkipped(_, _, _)
RECURSIVE markQueue(_, _, _)

\* the for-loop of markDownstreamSkipped over downstreamOf.get(nodeId)
markQueue(queue, skipped, edges) ==
    IF queue = <<>> THEN skipped
    ELSE LET downstream == Head(queue)
         IN  IF downstream \in skipped
             THEN markQueue(Tail(queue), skipped, edges)
             ELSE markQueue(Tail(queue),
                            markDownstreamSkipped(downstream, skipped \cup {downstream}, edges),
                            edges)

\* markDownstreamSkipped that marks the direct children only
markChildrenOnly(nodeId, skipped, edges) ==
    skipped \cup {e.to : e \in {edges[i] : i \in {j \in 1..Len(edges) : edges[j].from = nodeId}}}

markDownstreamSkipped(nodeId, skipped, edges) ==
    markQueue(Adjacency(edges, nodeId), skipped, edges)

\* edgesFrom.get(nodeId)
EdgesFrom(edges, id) == SelectSeq(edges, LAMBDA e : e.from = id)

\* the branch test without the "condition is set" conjunct
branchNotTakenAnyEdge(edge, nextNodeId) == edge.condition # nextNodeId

\* the branch test with the comparison inverted
branchNotTakenInverted(edge, nextNodeId) ==
    edge.condition # NoCond /\ edge.condition = nextNodeId

\* edge.condition && edge.condition !== result.nextNodeId
branchNotTaken(edge, nextNodeId) ==
    edge.condition # NoCond /\ edge.condition # nextNodeId

\* the loop over the outgoing edges of a node that returned nextNodeId
RECURSIVE skipBranches(_, _, _, _)
skipBranches(out, nextNodeId, skipped, edges) ==
    IF out = <<>> THEN skipped
    ELSE LET edge == Head(out)
         IN  IF branchNotTaken(edge, nextNodeId)
             THEN skipBranches(Tail(out), nextNodeId,
                               markDownstreamSkipped(edge.to, skipped \cup {edge.to}, edges),
                               edges)
             ELSE skipBranches(Tail(out), nextNodeId, skipped, edges)

\* config?.stopOnError === true
stopOnErrorOnlyIfTrue(c) == c.stopOnError = "true"

\* config?.stopOnError !== false
stopOnError(c) == c.stopOnError # "false"

\* the wave barrier resolving as soon as one wave promise settled
anySettled(wave) == \E i \in 1..Len(wave) : task[wave[i]].pc = "done"

\* await Promise.allSettled(wavePromises)
allSettled(wave) == \A i \in 1..Len(wave) : task[wave[i]].pc = "done"

\* continuations running while wave.map() is still launching wave members
launchedAny == pc \in {"launching", "awaiting"}

\* wave.map() calls every wave member synchronously before any continuation
\* of a wave promise runs
launchedAll == pc = "awaiting"

\* success only when no node was skipped either
workflowSuccessAllSucceeded(sts, nodes) ==
    \A id \in IdsOf(nodes) : sts[id] = "success"

\* allStatuses.every((s) => s === 'success' || s === 'skipped')
workflowSuccess(sts, nodes) ==
    \A id \in IdsOf(nodes) : sts[id] \in {"success", "skipped"}

\* WorkflowExecutionResult.error when the returned object has no such key
NoError == "undefined"

NoWfResult == [returned |-> FALSE, success |-> FALSE, error |-> NoError]

\* the state at the head of the for-loop over the waves: the next wave is
\* entered, or the loop is over and the result is returned
EnterWave(ws, i, sts) ==
    IF i <= Len(ws)
    THEN /\ pc' = "launching"
         /\ waveIdx' = i
         /\ launchIdx' = 1
         /\ waveStartVars' = variables
         /\ waveStartAborted' =
                [id \in NodeIds |->
                    IF id \in IdsOf(ws[i]) THEN aborted ELSE waveStartAborted[id]]
         /\ wfResult' = NoWfResult
    ELSE /\ pc' = "returned"
         /\ waveIdx' = i
         /\ launchIdx' = 1
         /\ wfResult' = [returned |-> TRUE, success |-> workflowSuccess(sts, wf.nodes),
                         error |-> NoError]
         /\ UNCHANGED <<waveStartVars, waveStartAborted>>

\* executeWorkflow up to the first wave.map(): lines 219-245
Start ==
    /\ pc = "init"
    /\ LET sorted == topologicalSort(wf)
       IN  IF sorted.threw
           THEN /\ pc' = "thrown"
                /\ UNCHANGED <<waves, waveIdx, launchIdx, statuses, waveStartVars,
                               waveStartAborted, wfResult>>
           ELSE /\ waves' = sorted.waves
                /\ statuses' = [id \in NodeIds |->
                                  IF id \in IdsOf(wf.nodes) THEN "idle" ELSE "absent"]
                /\ EnterWave(sorted.waves, 1, statuses')
    /\ UNCHANGED <<wf, cfg, results, fired, skippedNodes, task, variables, aborted, invoked,
                   started, ctxOp, ctxOps, nodeVars, stale, sideVars>>

\* the wave member is not launched, for the failure-skip reason only
skipAtLaunchSkippedOnly(id) == id \in skippedNodes

\* skippedNodes.has(nodeId), or config?.signal?.aborted: lines 249-257
skipAtLaunch(id) == id \in skippedNodes \/ (cfg.signal /\ aborted)

\* the synchronous part of one wave promise: lines 248-283, and executeNode
\* up to its first await; `throws` is the set of observer callbacks that
\* throw when called
LaunchTaskOf(throws) ==
    /\ pc = "launching"
    /\ LET wave == waves[waveIdx]
           id == wave[launchIdx]
           input == prepareNodeInput(NodeInput(id), variables)
       IN  /\ IF skipAtLaunch(id)
              THEN /\ statuses' = [statuses EXCEPT ![id] = "skipped"]
                   /\ task' = [task EXCEPT ![id] = [IdleTask EXCEPT !.pc = "done"]]
                   /\ UNCHANGED <<started, invoked>>
              ELSE /\ statuses' = [statuses EXCEPT ![id] = "running"]
                   /\ started' = [started EXCEPT ![id] = @ + 1]
                   /\ IF "onNodeStart" \in throws
                      THEN /\ task' = [task EXCEPT ![id] =
                                  [IdleTask EXCEPT !.pc = "done"]]
                           /\ UNCHANGED invoked
                      ELSE IF ~parseOk(NodeSchema(id), input)
                      THEN /\ task' = [task EXCEPT ![id] =
                                  [IdleTask EXCEPT !.pc = "rejected", !.input = input]]
                           /\ UNCHANGED invoked
                      ELSE /\ task' = [task EXCEPT ![id] =
                                  [IdleTask EXCEPT !.pc = "exec", !.input = input,
                                                   !.attempt = 1]]
                           /\ invoked' = [invoked EXCEPT ![id] = @ + 1]
           /\ launchIdx' = launchIdx + 1
           /\ pc' = IF launchIdx = Len(wave) THEN "awaiting" ELSE "launching"
    /\ UNCHANGED <<wf, cfg, waves, waveIdx, results, fired, skippedNodes, variables, aborted,
                   wfResult, waveStartVars, waveStartAborted, ctxOp, ctxOps, nodeVars, stale, sideVars>>

LaunchTask == LaunchTaskOf(cfg.throws)

\* the message of the error a throwing callback throws
CallbackError == "callback threw"

\* a catch block that puts the node back to idle
CaughtBackToIdle(throws, id, message) ==
    /\ statuses' = [statuses EXCEPT ![id] = "idle"]
    /\ results' = [results EXCEPT ![id] = Failure(message)]
    /\ skippedNodes' =
          IF "onNodeError" \notin throws /\ stopOnError(cfg)
          THEN markDownstreamSkipped(id, skippedNodes, wf.edges)
          ELSE skippedNodes
    /\ UNCHANGED variables

\* a catch block that leaves the descendants alone
CaughtWithoutSkip(throws, id, message) ==
    /\ statuses' = [statuses EXCEPT ![id] = "error"]
    /\ results' = [results EXCEPT ![id] = Failure(message)]
    /\ UNCHANGED <<skippedNodes, variables>>

\* the catch block of the wave promise: lines 314-323; a throwing
\* onNodeError leaves it before markDownstreamSkipped
Caught(throws, id, message) ==
    /\ statuses' = [statuses EXCEPT ![id] = "error"]
    /\ results' = [results EXCEPT ![id] = Failure(message)]
    /\ skippedNodes' =
          IF "onNodeError" \notin throws /\ stopOnError(cfg)
          THEN markDownstreamSkipped(id, skippedNodes, wf.edges)
          ELSE skippedNodes
    /\ UNCHANGED variables

\* the observer calls of lines 285-323 added to the counts f: onNodeComplete
\* for a success (289), onNodeError for a failure (308) and in the catch block
\* (318), which also catches what the two calls before it throw
calledBack(f, throws, threw, r) ==
    IF threw THEN [f EXCEPT !.error = @ + 1]
    ELSE IF r.success
    THEN IF "onNodeComplete" \in throws
         THEN [f EXCEPT !.complete = @ + 1, !.error = @ + 1]
         ELSE [f EXCEPT !.complete = @ + 1]
    ELSE IF "onNodeError" \in throws
         THEN [f EXCEPT !.error = @ + 2]
         ELSE [f EXCEPT !.error = @ + 1]

\* the wave promise after `await executeNode(...)`: lines 285-323, for an
\* executeNode call that returned r (threw = FALSE) or threw an error with
\* the message r.error (threw = TRUE)
CompleteTaskOf(throws, id, threw, r) ==
    /\ fired' = [fired EXCEPT ![id] = calledBack(@, throws, threw, r)]
    /\ IF threw THEN Caught(throws, id, r.error)
       ELSE IF r.success
       THEN IF "onNodeComplete" \in throws THEN Caught(throws, id, CallbackError)
            ELSE /\ results' = [results EXCEPT ![id] = r]
                 /\ statuses' = [statuses EXCEPT ![id] = "success"]
                 /\ variables' = IF r.output # Undef
                                 THEN storeNodeOutput(variables, id, r.output)
                                 ELSE variables
                 /\ skippedNodes' =
                       IF r.nextNodeId # NoNext
                       THEN skipBranches(EdgesFrom(wf.edges, id), r.nextNodeId,
                                         skippedNodes, wf.edges)
                       ELSE skippedNodes
       ELSE IF "onNodeError" \in throws THEN Caught(throws, id, CallbackError)
            ELSE /\ results' = [results EXCEPT ![id] = r]
                 /\ statuses' = [statuses EXCEPT ![id] = "error"]
                 /\ skippedNodes' =
                       IF stopOnError(cfg)
                       THEN markDownstreamSkipped(id, skippedNodes, wf.edges)
                       ELSE skippedNodes
                 /\ UNCHANGED variables
    /\ task' = [task EXCEPT ![id] = [@ EXCEPT !.pc = "done"]]

CompleteTask(id, threw, r) == CompleteTaskOf(cfg.throws, id, threw, r)

\* one attempt's Promise.race settled with o and executeWithRetry decides:
\* retry after the backoff sleep, or return to the wave promise, which
\* completes; a throwing onRetry is thrown again by the catch block's own
\* onRetry call (lines 115, 123-128) and leaves executeNode
AttemptSettleWith(throws, id, o) ==
    LET retriable == IF o.threw THEN TRUE
                     ELSE ~o.result.success /\ o.result.error # ""
    IN  IF retriable /\ task[id].attempt < cfg.maxAttempts
        THEN IF "onRetry" \in throws
             THEN CompleteTaskOf(throws, id, TRUE, Failure(CallbackError))
             ELSE /\ task' = [task EXCEPT ![id] = [@ EXCEPT !.pc = "sleep"]]
                  /\ UNCHANGED <<results, fired, statuses, variables, skippedNodes>>
        ELSE CompleteTaskOf(throws, id, FALSE, o.result)

AttemptSettleOf(throws, id) ==
    /\ launchedAll
    /\ task[id].pc = "exec"
    /\ \E o \in RaceOutcomes(id) : AttemptSettleWith(throws, id, o)
    /\ UNCHANGED <<wf, cfg, pc, waves, waveIdx, launchIdx, aborted, wfResult, invoked,
                   started, waveStartVars, waveStartAborted, ctxOp, ctxOps, nodeVars, stale, sideVars>>

AttemptSettle(id) == AttemptSettleOf(cfg.throws, id)

\* the backoff sleep is over: the next iteration of the retry loop starts
\* with the abort check (lines 102-105), then calls the executor
WakeOf(throws, id) ==
    /\ launchedAll
    /\ task[id].pc = "sleep"
    /\ IF cfg.signal /\ aborted
       THEN /\ CompleteTaskOf(throws, id, FALSE, Failure("Execution aborted"))
            /\ UNCHANGED invoked
       ELSE /\ task' = [task EXCEPT ![id] = [@ EXCEPT !.pc = "exec", !.attempt = @ + 1]]
            /\ invoked' = [invoked EXCEPT ![id] = @ + 1]
            /\ UNCHANGED <<results, fired, statuses, variables, skippedNodes>>
    /\ UNCHANGED <<wf, cfg, pc, waves, waveIdx, launchIdx, aborted, wfResult,
                   started, waveStartVars, waveStartAborted, ctxOp, ctxOps, nodeVars, stale, sideVars>>

Wake(id) == WakeOf(cfg.throws, id)

\* a timer armed only when no timeout is configured
SentinelSettlesUnarmed(id) ==
    /\ launchedAll
    /\ task[id].pc = "exec"
    /\ cfg.timeout = 0
    /\ AttemptSettleWith(cfg.throws, id, Rejected(TimeoutMessage(cfg.timeout)))
    /\ UNCHANGED <<wf, cfg, pc, waves, waveIdx, launchIdx, aborted, wfResult, invoked,
                   started, waveStartVars, waveStartAborted, ctxOp, ctxOps, nodeVars, stale, sideVars>>

\* the race of the pending attempt is settled by one of its two sentinels,
\* the timer (lines 160-169) or the abort listener (171-181), whatever the
\* executor does
SentinelSettles(id) ==
    /\ launchedAll
    /\ task[id].pc = "exec"
    /\ \E o \in RaceOutcomes(id) \ ExecutorSettlements(id) :
          AttemptSettleWith(cfg.throws, id, o)
    /\ UNCHANGED <<wf, cfg, pc, waves, waveIdx, launchIdx, aborted, wfResult, invoked,
                   started, waveStartVars, waveStartAborted, ctxOp, ctxOps, nodeVars, stale, sideVars>>

\* executeNode threw while the wave member was launched (inputSchema.parse):
\* the catch block of the wave promise runs
TaskCatchOf(throws, id) ==
    /\ launchedAll
    /\ task[id].pc = "rejected"
    /\ CompleteTaskOf(throws, id, TRUE, Failure("ZodError"))
    /\ UNCHANGED <<wf, cfg, pc, waves, waveIdx, launchIdx, aborted, wfResult, invoked,
                   started, waveStartVars, waveStartAborted, ctxOp, ctxOps, nodeVars, stale, sideVars>>

TaskCatch(id) == TaskCatchOf(cfg.throws, id)

\* AttemptSettle that keeps the executor invocation the timer or the abort
\* listener has beaten: executeWithTimeout returns and the executor's
\* promise is still pending (lines 183-187)
AttemptSettleTracked(id) ==
    /\ launchedAll
    /\ task[id].pc = "exec"
    /\ \E o \in RaceOutcomes(id) :
          /\ AttemptSettleWith(cfg.throws, id, o)
          /\ stale' = [stale EXCEPT !.running[id] =
                IF raceWinner(o) = "executor" THEN @
                ELSE @ \cup {Abandoned(raceWinner(o), task[id].attempt)}]
    /\ UNCHANGED <<wf, cfg, pc, waves, waveIdx, launchIdx, aborted, wfResult, invoked,
                   started, waveStartVars, waveStartAborted, ctxOp, ctxOps, nodeVars, sideVars>>

\* an executor invocation left behind by its race settles: Promise.race has
\* already settled, so the settlement reaches no continuation
LateSettle(id) ==
    /\ pc \in {"awaiting", "returned"}
    /\ \E gone \in stale.running[id], o \in ExecutorSettlements(id) :
          stale' = [running |-> [stale.running EXCEPT ![id] = @ \ {gone}],
                    late |-> [id |-> id, by |-> gone.by, attempt |-> gone.attempt,
                              threw |-> o.threw, result |-> o.result]]
    /\ UNCHANGED <<wf, cfg, pc, waves, waveIdx, launchIdx, statuses, results, fired,
                   skippedNodes, task, variables, aborted, wfResult, invoked, started,
                   waveStartVars, waveStartAborted, ctxOp, ctxOps, nodeVars, sideVars>>

\* Promise.allSettled resolves: the next wave is launched, or the result is
\* returned (lines 326-332)
WaveSettled ==
    /\ pc = "awaiting"
    /\ allSettled(waves[waveIdx])
    /\ EnterWave(waves, waveIdx + 1, statuses)
    /\ UNCHANGED <<wf, cfg, waves, statuses, results, fired, skippedNodes, task, variables,
                   aborted, invoked, started, ctxOp, ctxOps, nodeVars, stale, sideVars>>

\* the caller aborts config.signal, between two turns of the event loop
Abort ==
    /\ cfg.signal
    /\ ~aborted
    /\ pc \in {"init", "awaiting"}
    /\ aborted' = TRUE
    /\ UNCHANGED <<wf, cfg, pc, waves, waveIdx, launchIdx, statuses, results, fired,
                   skippedNodes, task, variables, wfResult, invoked, started,
                   waveStartVars, waveStartAborted, ctxOp, ctxOps, nodeVars, stale, sideVars>>

\* no onNodeComplete and no onNodeError call yet
NoFired == [id \in NodeIds |-> [complete |-> 0, error |-> 0]]

\* no toNodeContext call yet
NoNodeCtx ==
    [present |-> FALSE, variables |-> [k \in VarNames |-> Undef], shares |-> FALSE,
     asked |-> <<>>, answer |-> Undef]

\* no interpolate call yet
NoInterp == [called |-> FALSE, template |-> <<>>, result |-> Undef]

\* no repeated run
NoTwin ==
    [run |-> 0, executors |-> [id \in NodeIds |-> Returned(NoResult)],
     first |-> [statuses |-> [id \in NodeIds |-> "absent"],
                results |-> [id \in NodeIds |-> NoResult]]]

\* the ids of the editor's workflow nodes
RunnerIds == {"a", "b", "c", "d"}

\* no WorkflowRunner.run() call yet
NoRunner ==
    [pc |-> "idle", workflow |-> [nodes |-> <<>>, edges |-> <<>>], stopOnError |-> FALSE,
     executionOrder |-> <<>>, idx |-> 0,
     nodeStatuses |-> [id \in RunnerIds |-> "absent"],
     missing |-> {}, nodeOutputs |-> {}, skippedNodes |-> {}, hasError |-> FALSE,
     aborted |-> FALSE,
     invoked |-> [id \in RunnerIds |-> 0],
     nextNodeId |-> [id \in RunnerIds |-> NoNext]]

\* no direct MemoryCacheStore call yet
NoCacheOp ==
    [op |-> "none", key |-> "", at |-> 0, returned |-> NoResult,
     last |-> [k \in CacheKeys |-> [written |-> FALSE, value |-> NoResult, at |-> 0, ttlMs |-> 0]]]

SideIdle ==
    /\ nodeCtx = NoNodeCtx
    /\ interp = NoInterp
    /\ twin = NoTwin
    /\ runner = NoRunner
    /\ cacheOp = NoCacheOp

NoCtxOp == [op |-> "none", name |-> "", value |-> Undef]

InitialVariables == [k \in VarNames |-> IF k = "value" THEN Str("v0") ELSE Undef]

Init ==
    /\ wf \in Workflows
    /\ cfg \in Configs
    /\ pc = "init"
    /\ waves = <<>>
    /\ waveIdx = 0
    /\ launchIdx = 0
    /\ statuses = [id \in NodeIds |-> "absent"]
    /\ results = [id \in NodeIds |-> NoResult]
    /\ fired = NoFired
    /\ skippedNodes = {}
    /\ task = [id \in NodeIds |-> IdleTask]
    /\ variables = InitialVariables
    /\ aborted = FALSE
    /\ wfResult = NoWfResult
    /\ invoked = [id \in NodeIds |-> 0]
    /\ started = [id \in NodeIds |-> 0]
    /\ waveStartVars = InitialVariables
    /\ waveStartAborted = [id \in NodeIds |-> FALSE]
    /\ ctxOp = NoCtxOp
    /\ ctxOps = 0
    /\ calls = NoCalls
    /\ store = EmptyStore
    /\ now = 0
    /\ stale = NoStale
    /\ SideIdle

Next ==
    \/ Start
    \/ LaunchTask
    \/ \E id \in NodeIds : AttemptSettle(id)
    \/ \E id \in NodeIds : Wake(id)
    \/ \E id \in NodeIds : TaskCatch(id)
    \/ WaveSettled
    \/ Abort

Spec == Init /\ [][Next]_vars

-----------------------------------------------------------------------------
(* Direct executeNode calls, one after the other, with one configuration,  *)
(* one signal and one cache store.                                         *)

\* before the first executeNode call, under one of the configurations C
NodeStart(C) ==
    /\ wf = [nodes |-> <<>>, edges |-> <<>>]
    /\ cfg \in C
    /\ pc = "node"
    /\ waves = <<>>
    /\ waveIdx = 0
    /\ launchIdx = 0
    /\ statuses = [id \in NodeIds |-> "absent"]
    /\ results = [id \in NodeIds |-> NoResult]
    /\ fired = NoFired
    /\ skippedNodes = {}
    /\ task = [id \in NodeIds |-> IdleTask]
    /\ variables = InitialVariables
    /\ aborted = FALSE
    /\ wfResult = NoWfResult
    /\ invoked = [id \in NodeIds |-> 0]
    /\ started = [id \in NodeIds |-> 0]
    /\ waveStartVars = InitialVariables
    /\ waveStartAborted = [id \in NodeIds |-> FALSE]
    /\ ctxOp = NoCtxOp
    /\ ctxOps = 0
    /\ calls = NoCalls
    /\ store = EmptyStore
    /\ now = 0
    /\ stale = NoStale
    /\ SideIdle

InitNode == NodeStart(NodeConfigs)

NextNode ==
    \/ \E c \in Calls : NodeCall(c)
    \/ \E c \in Calls : CacheGetReturns(c)
    \/ \E c \in Calls : ExecutorSettles(c)
    \/ \E c \in Calls : TimerFires(c)
    \/ NodeAbort
    \/ \E c \in Calls : NodeWake(c)
    \/ \E c \in Calls : CacheSetReturns(c)
    \/ Tick

SpecNode == InitNode /\ [][NextNode]_vars

-----------------------------------------------------------------------------
(* Runs of executeWorkflow in which the executor invocations that a timeout *)
(* or an abort leaves behind are followed until they settle, next to direct *)
(* executeNode calls                                                        *)

\* a -> c -> b: c's input is {{a}} and c's schema rejects an object, so c
\* fails validation when a stored an object, and b is c's descendant
ChainEdges == << Edge("a", "c", NoCond), Edge("c", "b", NoCond) >>

Chain == [nodes |-> <<"a", "b", "c">>, edges |-> ChainEdges]

\* a workflow of one node
Single == [nodes |-> <<"a">>, edges |-> <<>>]

\* the single node under every configuration, and the chain under the
\* configurations without timer and signal
EngineRuns ==
    {[wf |-> Single, cfg |-> c] : c \in Configs}
    \cup {[wf |-> Chain, cfg |-> c] : c \in {x \in Configs : x.timeout = 0 /\ ~x.signal}}

\* the chain under configurations whose observer callbacks may throw
ThrowingRuns ==
    {[wf |-> Chain, cfg |-> c] :
        c \in [stopOnError : {"undefined", "true", "false"},
               timeout : {0},
               signal : {FALSE},
               maxAttempts : 1..MaxAttempts,
               cache : {FALSE}, ttlMs : {1}, callers : {0},
               throws : SUBSET Callbacks]}

\* edges of which some name "c", an id the workflow does not declare
DanglingEdges ==
    << Edge("a", "b", NoCond), Edge("a", "c", NoCond), Edge("c", "b", NoCond),
       Edge("b", "a", NoCond) >>

EdgesAt(cands, S) ==
    LET F[i \in 0..Len(cands)] ==
          IF i = 0 THEN <<>>
          ELSE IF i \in S THEN Append(F[i-1], cands[i]) ELSE F[i-1]
    IN  F[Len(cands)]

\* the nodes a and b under every choice of these edges
DanglingRuns ==
    {[wf |-> [nodes |-> <<"a", "b">>, edges |-> EdgesAt(DanglingEdges, S)], cfg |-> c] :
        S \in SUBSET (1..Len(DanglingEdges)),
        c \in [stopOnError : {"undefined", "false"},
               timeout : {0},
               signal : {FALSE},
               maxAttempts : 1..MaxAttempts,
               cache : {FALSE}, ttlMs : {1}, callers : {0},
               throws : {{}}]}

\* the workflow runs start as Init does, from a workflow and a configuration
\* of R
RunStart(R) ==
    /\ \E r \in R : wf = r.wf /\ cfg = r.cfg
    /\ pc = "init"
    /\ waves = <<>>
    /\ waveIdx = 0
    /\ launchIdx = 0
    /\ statuses = [id \in NodeIds |-> "absent"]
    /\ results = [id \in NodeIds |-> NoResult]
    /\ fired = NoFired
    /\ skippedNodes = {}
    /\ task = [id \in NodeIds |-> IdleTask]
    /\ variables = InitialVariables
    /\ aborted = FALSE
    /\ wfResult = NoWfResult
    /\ invoked = [id \in NodeIds |-> 0]
    /\ started = [id \in NodeIds |-> 0]
    /\ waveStartVars = InitialVariables
    /\ waveStartAborted = [id \in NodeIds |-> FALSE]
    /\ ctxOp = NoCtxOp
    /\ ctxOps = 0
    /\ calls = NoCalls
    /\ store = EmptyStore
    /\ now = 0
    /\ stale = NoStale

InitRun(R) == RunStart(R) /\ SideIdle

InitEngine == InitNode \/ InitRun(EngineRuns)

NextRun ==
    \/ Start
    \/ LaunchTask
    \/ \E id \in NodeIds : AttemptSettleTracked(id)
    \/ \E id \in NodeIds : LateSettle(id)
    \/ \E id \in NodeIds : Wake(id)
    \/ \E id \in NodeIds : TaskCatch(id)
    \/ WaveSettled
    \/ Abort

NextEngine == NextNode \/ NextRun

SpecEngine == InitEngine /\ [][NextEngine]_vars

InitThrow == InitRun(ThrowingRuns)

\* the steps of a run whose signal is never aborted and whose executors
\* are followed only until their race settles
NextThrow ==
    \/ Start
    \/ LaunchTask
    \/ \E id \in NodeIds : AttemptSettle(id)
    \/ \E id \in NodeIds : Wake(id)
    \/ \E id \in NodeIds : TaskCatch(id)
    \/ WaveSettled

SpecThrow == InitThrow /\ [][NextThrow]_vars

InitDangling == InitRun(DanglingRuns)

\* the steps of these runs: a and b take any input, so that no wave member
\* is rejected by its input schema
NextDangling ==
    \/ Start
    \/ LaunchTask
    \/ \E id \in NodeIds : AttemptSettle(id)
    \/ \E id \in NodeIds : Wake(id)
    \/ WaveSettled

SpecDangling == InitDangling /\ [][NextDangling]_vars

-----------------------------------------------------------------------------
(* Graph notions the properties are stated with *)

EdgeSet == {wf.edges[i] : i \in 1..Len(wf.edges)}

Children(S) == {e.to : e \in {x \in EdgeSet : x.from \in S}}

\* the nodes reachable from id along one or more edges
Descendants(id) ==
    LET R[k \in 0..Cardinality(NodeIds)] ==
          IF k = 0 THEN Children({id}) ELSE R[k-1] \cup Children(R[k-1])
    IN  R[Cardinality(NodeIds)]

Ancestors(id) == {m \in NodeIds : id \in Descendants(m)}

HasCycle == \E id \in NodeIds : id \in Descendants(id)

Declared == IdsOf(wf.nodes)

\* the index of the wave a node was planned into
WaveOf(id) == CHOOSE i \in 1..Len(waves) : id \in IdsOf(waves[i])

Planned == pc \in {"launching", "awaiting", "returned"}

FinalStatuses == {"success", "error", "skipped"}

-----------------------------------------------------------------------------
StatusFinality ==
    wfResult.returned => \A id \in Declared : statuses[id] \in FinalStatuses

StatusFinalityWitness ==
    /\ wfResult.returned
    /\ aborted
    /\ \E x \in Declared, y \in Declared, z \in Declared :
          statuses[x] = "success" /\ statuses[y] = "error" /\ statuses[z] = "skipped"

(* C3: a workflow whose edges contain a cycle makes executeWorkflow throw: *)
(* it never returns a result, no executor is invoked and onNodeStart never *)
(* fires, also for the nodes that are not on the cycle.                    *)
CycleRejection ==
    HasCycle =>
        /\ pc \in {"init", "thrown"}
        /\ ~wfResult.returned
        /\ \A id \in NodeIds : invoked[id] = 0 /\ started[id] = 0

CycleRejectionWitness ==
    /\ pc = "thrown"
    /\ HasCycle
    /\ \E id \in Declared : id \notin Descendants(id) /\ Ancestors(id) = {}

(* C4: when a node has status error and stopOnError is not false (omitted  *)
(* counts as true), no descendant of it is ever started or executed or has *)
(* a result, each ends skipped, and the workflow's success is false.       *)
FailureSkipsDescendants ==
    \A id \in Declared :
        (statuses[id] = "error" /\ cfg.stopOnError # "false") =>
            /\ \A d \in Descendants(id) :
                  /\ invoked[d] = 0 /\ started[d] = 0
                  /\ ~results[d].present
                  /\ statuses[d] \in {"idle", "skipped"}
                  /\ (wfResult.returned => statuses[d] = "skipped")
            /\ (wfResult.returned => ~wfResult.success)

FailureSkipsDescendantsWitness ==
    /\ wfResult.returned
    /\ cfg.stopOnError = "undefined"
    /\ ~aborted
    /\ \E id \in Declared :
          /\ statuses[id] = "error"
          /\ Cardinality(Descendants(id)) = 2

-----------------------------------------------------------------------------
(* Conditional branching and skip propagation *)

\* the outgoing conditional edges of id that its returned nextNodeId did not select
NotSelected(id) ==
    {e \in EdgeSet : /\ e.from = id
                     /\ e.condition # NoCond
                     /\ e.condition # results[id].nextNodeId}

Branched(id) == statuses[id] = "success" /\ results[id].nextNodeId # NoNext

NeverRun(d) ==
    /\ invoked[d] = 0 /\ started[d] = 0
    /\ statuses[d] \in {"idle", "skipped"}
    /\ (wfResult.returned => statuses[d] = "skipped")

\* the targets of the non-selected conditional edges, and their descendants,
\* are never run and end skipped
BranchTargetsSkipped ==
    \A id \in Declared :
        Branched(id) =>
            \A e \in NotSelected(id) : \A d \in {e.to} \cup Descendants(e.to) : NeverRun(d)

\* the step in which id succeeds with a nextNodeId
BranchStep(id) ==
    /\ statuses[id] # "success"
    /\ statuses'[id] = "success"
    /\ results'[id].nextNodeId # NoNext

\* that step adds no target of an unconditional outgoing edge to skippedNodes
UnconditionalNeverSkipped ==
    \A id \in Declared :
        BranchStep(id) =>
            \A e \in EdgeSet :
                (e.from = id /\ e.condition = NoCond) =>
                    (e.to \in skippedNodes' => e.to \in skippedNodes)

\* that step adds to skippedNodes only targets of non-selected conditional
\* edges and their descendants
OnlyNonSelectedSkipped ==
    \A id \in Declared :
        BranchStep(id) =>
            \A d \in skippedNodes' \ skippedNodes :
                \E e \in EdgeSet :
                    /\ e.from = id
                    /\ e.condition # NoCond
                    /\ e.condition # results'[id].nextNodeId
                    /\ d \in {e.to} \cup Descendants(e.to)

(* C5 as stated: when a node succeeds with nextNodeId, the target of every *)
(* outgoing edge whose condition is set and differs from nextNodeId, and   *)
(* every descendant of it, is never executed and ends skipped, and no      *)
(* target of an outgoing edge without a condition is skipped by that step. *)
BranchSkipAsStated == []BranchTargetsSkipped /\ [][UnconditionalNeverSkipped]_vars

(* C5 amended: as above, except that the target of an edge without a       *)
(* condition is skipped by that step only when it is also the target, or a *)
(* descendant of the target, of a non-selected conditional edge of the     *)
(* node.                                                                   *)
BranchSkip == []BranchTargetsSkipped /\ [][OnlyNonSelectedSkipped]_vars

BranchSkipWitness ==
    /\ wfResult.returned
    /\ \E id \in Declared :
          /\ Branched(id)
          /\ \E e \in NotSelected(id) : statuses[e.to] = "skipped"
          /\ \E e \in EdgeSet :
                e.from = id /\ e.condition = NoCond /\ statuses[e.to] = "success"

(* C6: in the returned statuses, every node reachable from a skipped node  *)
(* is skipped too.                                                         *)
SkipTransitivity ==
    wfResult.returned =>
        \A u \in Declared :
            statuses[u] = "skipped" => \A v \in Descendants(u) : statuses[v] = "skipped"

SkipTransitivityWitness ==
    /\ wfResult.returned
    /\ ~aborted
    /\ \E u \in Declared :
          /\ statuses[u] = "skipped"
          /\ Descendants(u) # {}
          /\ \E m \in Ancestors(u) : statuses[m] = "error"

\* (a) an ancestor ended in error while stopOnError was not false
SkippedByFailure(id) ==
    cfg.stopOnError # "false" /\ \E m \in Ancestors(id) : statuses[m] = "error"

\* (b) the node or an ancestor is the target of a non-selected conditional edge
SkippedByBranch(id) ==
    \E m \in Declared :
        Branched(m) /\ \E e \in NotSelected(m) : e.to \in {id} \cup Ancestors(id)

(* C7: a node is skipped only if an ancestor failed (stopOnError not       *)
(* false), or it or an ancestor is the target of a non-selected            *)
(* conditional edge, or the signal was aborted when its wave started; any  *)
(* other node (a same-wave peer of a failed node, a node of another        *)
(* component) is run and ends success or error.                            *)
SkipOnlyForCause ==
    \A id \in Declared :
        LET cause == SkippedByFailure(id) \/ SkippedByBranch(id) \/ waveStartAborted[id]
        IN  /\ statuses[id] = "skipped" => cause
            /\ (wfResult.returned /\ ~cause) =>
                  (statuses[id] \in {"success", "error"} /\ started[id] = 1)

SkipOnlyForCauseWitness ==
    /\ wfResult.returned
    /\ cfg.stopOnError # "false"
    /\ \E m \in Declared, n \in Declared, d \in Declared :
          /\ m # n /\ WaveOf(m) = WaveOf(n)
          /\ statuses[m] = "error" /\ statuses[n] = "success"
          /\ d \in Descendants(m) /\ statuses[d] = "skipped"

(* C8: the interpolated input of every member of the running wave is the   *)
(* interpolation of its raw input in the context as it was when the wave   *)
(* began, and nothing is stored in the context while members are still     *)
(* being launched.                                                         *)
InputDeterminism ==
    (pc \in {"launching", "awaiting"}) =>
        /\ \A id \in IdsOf(waves[waveIdx]) :
              task[id].pc \in {"exec", "sleep", "rejected"} \/ statuses[id] \in {"success", "error"}
                  => task[id].input = prepareNodeInput(NodeInput(id), waveStartVars)
        /\ (\E id \in IdsOf(waves[waveIdx]) : task[id].pc = "idle") => variables = waveStartVars

InputDeterminismWitness ==
    /\ pc = "awaiting"
    /\ {"a", "b"} \subseteq IdsOf(waves[waveIdx])
    /\ statuses["a"] = "success"
    /\ variables["a"] = Obj({<<"value", "a">>})
    /\ task["b"].pc = "exec"
    /\ task["b"].input = Undef

(* C9: whenever a wave is being launched and when the run has returned,    *)
(* the variable named by the id of every node that succeeded with a        *)
(* defined output is that output.                                          *)
NodeCopyNeverOverwritten ==
    (pc = "launching" \/ wfResult.returned) =>
        \A id \in Declared :
            (statuses[id] = "success" /\ results[id].output # Undef)
                => getVariable(variables, id) = results[id].output

-----------------------------------------------------------------------------
(* The execution context used on its own: a caller applies its methods to *)
(* a context built from some initial variables.                            *)

\* the values a caller stores
CtxValues ==
    {Undef, Str("s"), Arr("l"), Obj({}), Obj({<<"value", "w">>}),
     Obj({<<"a", "x">>}), Obj({<<"a", "x">>, <<"value", "w">>})}

\* a context constructed with initial variables drawn from `stores`
InitContext(stores) ==
    /\ wf = [nodes |-> <<>>, edges |-> <<>>]
    /\ cfg = [stopOnError |-> "undefined", timeout |-> 0, signal |-> FALSE,
              maxAttempts |-> 1, cache |-> FALSE, ttlMs |-> 1, callers |-> 0,
              throws |-> {}]
    /\ pc = "context"
    /\ waves = <<>>
    /\ waveIdx = 0
    /\ launchIdx = 0
    /\ statuses = [id \in NodeIds |-> "absent"]
    /\ results = [id \in NodeIds |-> NoResult]
    /\ fired = NoFired
    /\ skippedNodes = {}
    /\ task = [id \in NodeIds |-> IdleTask]
    /\ variables \in stores
    /\ aborted = FALSE
    /\ wfResult = NoWfResult
    /\ invoked = [id \in NodeIds |-> 0]
    /\ started = [id \in NodeIds |-> 0]
    /\ waveStartVars = InitialVariables
    /\ waveStartAborted = [id \in NodeIds |-> FALSE]
    /\ ctxOp = NoCtxOp
    /\ ctxOps = 0
    /\ calls = NoCalls
    /\ store = EmptyStore
    /\ now = 0
    /\ stale = NoStale
    /\ SideIdle

CtxCall(op, name, value) ==
    /\ pc = "context"
    /\ ctxOps < MaxCtxOps
    /\ ctxOps' = ctxOps + 1
    /\ ctxOp' = [op |-> op, name |-> name, value |-> value]
    /\ UNCHANGED <<wf, cfg, pc, waves, waveIdx, launchIdx, statuses, results, fired,
                   skippedNodes, task, aborted, wfResult, invoked, started,
                   waveStartVars, waveStartAborted, nodeVars, stale, sideVars>>

InitCtx == InitContext({InitialVariables, [k \in VarNames |-> Undef]})

\* context.storeNodeOutput(nodeId, output)
CtxStoreNodeOutput ==
    \E nodeId \in NodeIds, output \in CtxValues :
        /\ CtxCall("storeNodeOutput", nodeId, output)
        /\ variables' = storeNodeOutput(variables, nodeId, output)

\* context.setVariable(name, value)
CtxSetVariable ==
    \E name \in VarNames, value \in CtxValues :
        /\ CtxCall("setVariable", name, value)
        /\ variables' = setVariable(variables, name, value)

NextCtx ==
    \/ CtxStoreNodeOutput
    \/ CtxSetVariable

SpecCtx == InitCtx /\ [][NextCtx]_vars

JustStoredObject == ctxOp.op = "storeNodeOutput" /\ ctxOp.value.kind = "object"

(* C10 as stated: after storeNodeOutput(id, obj) with obj a plain object,  *)
(* getVariable(id) is obj and getVariable(k) is obj[k] for every key k of  *)
(* obj.                                                                    *)
DualStorageAsStated ==
    JustStoredObject =>
        /\ getVariable(variables, ctxOp.name) = ctxOp.value
        /\ \A k \in ObjKeys(ctxOp.value) :
              getVariable(variables, k) = ObjGet(ctxOp.value, k)

(* C10 amended: after storeNodeOutput(id, obj) with obj a plain object,    *)
(* getVariable(k) is obj[k] for every key k of obj, and getVariable(id) is *)
(* obj unless id is a key of obj (then it is obj[id]).                     *)
DualStorage ==
    JustStoredObject =>
        /\ \A k \in ObjKeys(ctxOp.value) :
              getVariable(variables, k) = ObjGet(ctxOp.value, k)
        /\ ctxOp.name \notin ObjKeys(ctxOp.value)
              => getVariable(variables, ctxOp.name) = ctxOp.value
        /\ ctxOp.name \in ObjKeys(ctxOp.value)
              => getVariable(variables, ctxOp.name) = ObjGet(ctxOp.value, ctxOp.name)

DualStorageWitness ==
    /\ JustStoredObject
    /\ ctxOps = MaxCtxOps
    /\ ctxOp.name \in ObjKeys(ctxOp.value)
    /\ Cardinality(ObjKeys(ctxOp.value)) = 2

-----------------------------------------------------------------------------
(* Properties of direct executeNode calls *)

\* the call returned a result to its caller
HasReturned(c) == calls[c].pc = "returned"

\* the call was served from the cache
CacheHit(c) == HasReturned(c) /\ calls[c].got.present

\* this step is the lookup of call c: executeNode calls store.get
Lookup(c) == calls[c].pc # "get" /\ calls'[c].pc = "get"

\* the store holds an unexpired entry under key k
Unexpired(k) == store[k].present /\ ~(now > store[k].expireAt)

(* C11: with the cache enabled, a lookup that finds an unexpired entry     *)
(* under the key of the validated input gets that entry's value, and the   *)
(* call then returns exactly that value with no executor invocation and no *)
(* onRetry call.                                                           *)
CacheHitBypass ==
    /\ [][\A c \in Calls :
            (Lookup(c) /\ Unexpired(calls'[c].key))
                => calls'[c].got = store[calls'[c].key].value]_vars
    /\ [](\A c \in Calls :
            (calls[c].pc = "get" /\ calls[c].got.present)
                => /\ calls[c].invoked = 0
                   /\ calls[c].retries = <<>>)
    /\ [](\A c \in Calls :
            CacheHit(c) => /\ calls[c].result = calls[c].got
                           /\ calls[c].invoked = 0
                           /\ calls[c].execs = <<>>
                           /\ calls[c].retries = <<>>)

CacheHitBypassWitness ==
    \E c \in Calls :
        /\ CacheHit(c)
        /\ calls[c].result.success
        /\ calls[c].result = store[calls[c].key].value

(* C12: every entry of the cache store is a result with success = true,    *)
(* whatever calls were made and however they ended.                        *)
FailureNotCached ==
    \A k \in CacheKeys : store[k].present => store[k].value.success

FailureNotCachedWitness ==
    /\ cfg.cache
    /\ \E c \in Calls :
          /\ HasReturned(c)
          /\ ~calls[c].result.success
          /\ calls[c].races # <<>>
          /\ store[calls[c].key] = NoEntry
    /\ \E k \in CacheKeys : store[k].present

(* C13 as stated: the executor is invoked at most maxAttempts times in a   *)
(* call, and at least once in a call that returned unless the signal was   *)
(* aborted.                                                                *)
RetryExhaustionAsStated ==
    \A c \in Calls :
        /\ calls[c].invoked <= cfg.maxAttempts
        /\ (HasReturned(c) /\ ~aborted) => calls[c].invoked >= 1

(* C13 amended: at most maxAttempts invocations; a call that returned with *)
(* no invocation had maxAttempts < 1, or was served from the cache, or     *)
(* found the signal aborted before its first attempt; a call that threw    *)
(* on validation made none.                                                *)
RetryExhaustion ==
    \A c \in Calls :
        /\ calls[c].invoked <= cfg.maxAttempts
        /\ calls[c].invoked = Len(calls[c].execs)
        /\ (HasReturned(c) /\ calls[c].invoked = 0)
              => \/ cfg.maxAttempts < 1
                 \/ CacheHit(c)
                 \/ aborted /\ calls[c].result = Failure("Execution aborted")
        /\ calls[c].pc = "thrown" => calls[c].invoked = 0

RetryExhaustionWitness ==
    \E c \in Calls :
        /\ HasReturned(c)
        /\ cfg.maxAttempts = MaxAttempts
        /\ calls[c].invoked = MaxAttempts
        /\ ~calls[c].result.success

\* the executor's own outcome on attempt j of call c
ExecutorFailed(c, j) ==
    /\ calls[c].execs[j].state = "settled"
    /\ \/ calls[c].execs[j].threw
       \/ ~calls[c].execs[j].result.success /\ calls[c].execs[j].result.error # ""

ExecutorSucceeded(c, j) ==
    /\ calls[c].execs[j].state = "settled"
    /\ ~calls[c].execs[j].threw
    /\ calls[c].execs[j].result.success

\* the executor failed on attempts 1..k and succeeded on attempt k+1
FailsThenSucceeds(c, k) ==
    /\ k + 1 <= cfg.maxAttempts
    /\ k + 1 <= Len(calls[c].execs)
    /\ \A j \in 1..k : ExecutorFailed(c, j)
    /\ ExecutorSucceeded(c, k + 1)

\* the call returns the success of attempt k+1 after k+1 invocations and k
\* onRetry calls numbered 1..k
RetriedToSuccess(c, k) ==
    /\ calls[c].result = calls[c].execs[k + 1].result
    /\ calls[c].invoked = k + 1
    /\ calls[c].retries = [j \in 1..k |-> j]

NoTimeout(c) == \A j \in 1..Len(calls[c].races) : calls[c].races[j] # "timer"

(* C14 as stated: without abort, a call whose executor fails on attempts   *)
(* 1..k and succeeds on attempt k+1 <= maxAttempts returns that success    *)
(* after exactly k+1 invocations and onRetry calls 1..k.                   *)
RetryThenSuccessAsStated ==
    \A c \in Calls : \A k \in 0..MaxAttempts :
        (HasReturned(c) /\ ~aborted /\ FailsThenSucceeds(c, k))
            => RetriedToSuccess(c, k)

(* C14 amended: the same, for a call none of whose attempts was ended by   *)
(* the timeout.                                                            *)
RetryThenSuccess ==
    \A c \in Calls : \A k \in 0..MaxAttempts :
        (HasReturned(c) /\ ~aborted /\ NoTimeout(c) /\ FailsThenSucceeds(c, k))
            => RetriedToSuccess(c, k)

RetryThenSuccessWitness ==
    \E c \in Calls :
        /\ HasReturned(c)
        /\ ~aborted
        /\ NoTimeout(c)
        /\ cfg.timeout # 0
        /\ FailsThenSucceeds(c, MaxAttempts - 1)
        /\ calls[c].execs[1].threw

\* this step starts an executor invocation in call c
StartsInvocation(c) ==
    /\ calls'[c].pc = "race"
    /\ calls[c].pc # "race" \/ calls'[c].attempt # calls[c].attempt

\* this step runs the head of the retry loop of call c with an attempt due:
\* after the backoff sleep, after a cache miss, or on entry without cache
AttemptDue(c) ==
    /\ cfg.maxAttempts >= 1
    /\ calls'[c] # calls[c]
    /\ \/ calls[c].pc = "sleep" /\ calls'[c].pc # "sleep"
       \/ calls[c].pc = "get" /\ ~calls[c].got.present
       \/ /\ calls[c].pc \in {"new", "returned", "thrown"}
          /\ calls'[c].races = <<>>
          /\ calls'[c].pc \notin {"get", "thrown"}

AbortedResult(call) ==
    call.pc = "returned" /\ call.result = Failure("Execution aborted")

(* C16: once the signal is aborted no step starts an executor invocation;  *)
(* an attempt due after the abort makes the call return                    *)
(* {success:false, error:"Execution aborted"}; an attempt in flight when   *)
(* the signal is aborted has its race settled by the abort listener and    *)
(* its call returns that same failure, at once or at the next loop head.   *)
AbortStopsInvocations ==
    /\ [][\A c \in Calls : aborted => ~StartsInvocation(c)]_vars
    /\ [][\A c \in Calls :
            (aborted /\ AttemptDue(c))
                => /\ AbortedResult(calls'[c])
                   /\ calls'[c].execs = IF calls[c].pc = "sleep"
                                        THEN calls[c].execs ELSE <<>>]_vars
    /\ [][\A c \in Calls :
            (~aborted /\ aborted' /\ calls[c].pc = "race")
                => /\ calls'[c].races = Append(calls[c].races, "abort")
                   /\ calls'[c].execs = calls[c].execs
                   /\ \/ AbortedResult(calls'[c])
                      \/ calls'[c].pc = "sleep"]_vars

AbortStopsInvocationsWitness ==
    \E c \in Calls :
        /\ aborted
        /\ AbortedResult(calls[c])
        /\ calls[c].races # <<>>
        /\ calls[c].races[Len(calls[c].races)] = "abort"
        /\ Len(calls[c].retries) = Len(calls[c].races)
        /\ calls[c].execs[calls[c].attempt] = InFlight


(***************************************************************************)
(* Properties of cancellation and of throwing callbacks in executeWorkflow *)
(***************************************************************************)

\* the wave of `later` is the wave of id or comes after it
NotBefore(later, id) == WaveOf(later) >= WaveOf(id)

\* C17: when the signal is already aborted as a wave starts, every node of
\* that wave and of every later wave ends with the status skipped, its
\* executor was never invoked and onNodeStart was never fired for it
AbortSkipsWaves ==
    pc = "returned" =>
        \A id \in Declared : \A later \in Declared :
            waveStartAborted[id] /\ NotBefore(later, id) =>
                /\ statuses[later] = "skipped"
                /\ invoked[later] = 0
                /\ started[later] = 0
                /\ results[later] = NoResult

\* the signal was aborted while the first wave ran: the first wave's node
\* was started and invoked, and two later waves were skipped for that
\* reason alone
AbortSkipsWavesWitness ==
    /\ pc = "returned"
    /\ Len(waves) = 3
    /\ skippedNodes = {}
    /\ \E id \in Declared :
          /\ WaveOf(id) = 1 /\ ~waveStartAborted[id]
          /\ started[id] = 1 /\ invoked[id] >= 1
    /\ \E id \in Declared : \E later \in Declared :
          /\ WaveOf(id) = 2 /\ waveStartAborted[id] /\ WaveOf(later) = 3
          /\ statuses[id] = "skipped" /\ statuses[later] = "skipped"

-----------------------------------------------------------------------------
(* Properties of executor invocations left behind by a timeout or an abort *)

\* this step is the timer winning the pending race of call c
TimedOut(c) == calls'[c].races = Append(calls[c].races, "timer")

\* this step is the settlement of an executor invocation of call c whose
\* race at that attempt was won by `by`
LateCompletion(c, by) ==
    \E k \in 1..Len(calls[c].execs) :
        /\ k <= Len(calls[c].races) /\ calls[c].races[k] = by
        /\ calls[c].execs[k] = InFlight
        /\ k <= Len(calls'[c].execs) /\ calls'[c].execs[k] # InFlight

\* this step is the settlement of a left-behind executor invocation of the
\* workflow node id whose race was won by `by`
LateStep(id, by) ==
    \E gone \in stale.running[id] : gone.by = by /\ gone \notin stale'.running[id]

\* the last race of the workflow node id was won by `by`, and the executor
\* invocation it left behind has returned success since
LateSuccess(id, by) ==
    /\ stale.late.id = id /\ stale.late.by = by
    /\ stale.late.attempt = task[id].attempt
    /\ ~stale.late.threw /\ stale.late.result.success

(* C15: when the timer wins the race of an attempt, the attempt fails with  *)
(* "Execution timed out after <N>ms": executeNode retries if attempts       *)
(* remain, and otherwise returns that failure as a result; when the         *)
(* executor of that attempt settles later, the call's result and the cache  *)
(* stay as they are, and in a workflow run the node's result, its status    *)
(* and the context variables stay as they are (a node whose last attempt   *)
(* timed out ends with that failure, the status error and nothing stored).  *)
TimeoutInBand ==
    /\ [][\A c \in Calls :
            TimedOut(c) =>
                \/ /\ calls'[c].pc = "returned"
                   /\ calls'[c].result = Failure(TimeoutMessage(cfg.timeout))
                   /\ calls[c].attempt >= cfg.maxAttempts
                \/ /\ calls'[c].pc = "sleep"
                   /\ calls[c].attempt < cfg.maxAttempts]_vars
    /\ [][\A c \in Calls :
            LateCompletion(c, "timer") =>
                /\ calls'[c].pc = calls[c].pc
                /\ calls'[c].result = calls[c].result
                /\ store' = store]_vars
    /\ [][\A id \in NodeIds :
            LateStep(id, "timer") =>
                /\ results' = results
                /\ statuses' = statuses
                /\ variables' = variables]_vars
    /\ [](\A id \in NodeIds :
            (pc = "returned" /\ LateSuccess(id, "timer")
                /\ stale.late.attempt = cfg.maxAttempts) =>
                /\ results[id] = Failure(TimeoutMessage(cfg.timeout))
                /\ statuses[id] = "error"
                /\ variables = InitialVariables)

\* a cached call returned the timeout failure, its executor then returned
\* success, and the cache holds nothing
TimeoutInBandWitness ==
    \E c \in Calls :
        /\ cfg.cache
        /\ HasReturned(c)
        /\ calls[c].result = Failure(TimeoutMessage(cfg.timeout))
        /\ calls[c].races = <<"timer">>
        /\ ExecutorSucceeded(c, 1)
        /\ ~store[calls[c].key].present

\* this step settles the pending race of the workflow node id
RaceSettles(id) == task[id].pc = "exec" /\ task'[id].pc # "exec"

(* C18 as stated: when the signal is aborted while a node's executor is in  *)
(* flight and that executor later returns success, the node's result and    *)
(* status are the executor's outcome and its output is in the context.      *)
ResultsStillStored ==
    \A id \in NodeIds :
        (task[id].pc = "done" /\ LateSuccess(id, "abort")) =>
            /\ results[id] = stale.late.result
            /\ statuses[id] = "success"
            /\ variables[id] = stale.late.result.output

(* C18, amended: a race that settles while the signal is aborted settles    *)
(* with "Execution aborted" and leaves its executor behind; the node ends   *)
(* with that failure and the status error, and when the executor returns    *)
(* success later, the node's result, its status and the context variables   *)
(* stay as they are: its output is not stored.                              *)
AbortDiscardsResult ==
    /\ [][\A id \in NodeIds :
            (RaceSettles(id) /\ cfg.signal /\ aborted) =>
                /\ Abandoned("abort", task[id].attempt) \in stale'.running[id]
                /\ variables' = variables
                /\ \/ task'[id].pc = "sleep" /\ task[id].attempt < cfg.maxAttempts
                   \/ /\ task'[id].pc = "done"
                      /\ results'[id] = Failure("Execution aborted")
                      /\ statuses'[id] = "error"]_vars
    /\ [][\A id \in NodeIds :
            LateStep(id, "abort") =>
                /\ results' = results
                /\ statuses' = statuses
                /\ variables' = variables]_vars
    /\ [](\A id \in NodeIds :
            (task[id].pc = "done" /\ LateSuccess(id, "abort")) =>
                /\ results[id] = Failure("Execution aborted")
                /\ statuses[id] = "error"
                /\ variables[id] = Undef)

\* the run has returned, and the executor that was in flight when the signal
\* was aborted has returned an output since
AbortDiscardsResultWitness ==
    \E id \in NodeIds :
        /\ pc = "returned"
        /\ LateSuccess(id, "abort")
        /\ stale.late.result.output # Undef
        /\ results[id] = Failure("Execution aborted")
        /\ invoked[id] = 1

-----------------------------------------------------------------------------
(* Properties of input validation *)

\* the interpolated input of the workflow node id failed its input schema
ValidationFailed(id) ==
    /\ task[id].pc \in {"rejected", "done"}
    /\ ~parseOk(NodeSchema(id), task[id].input)

(* C20: a raw input that fails the input schema makes executeNode throw     *)
(* with no cache lookup, no change of the cache, no executor invocation and *)
(* no retry; in a workflow run the node ends with the status error and the  *)
(* result {success:false, error: the validation message}, its executor is   *)
(* never invoked, and unless stopOnError is false its descendants are       *)
(* marked skipped and end skipped without being started.                    *)
ValidationThrows ==
    /\ [](\A c \in Calls :
            ~parseOk("string?", calls[c].input) =>
                /\ calls[c].pc = "thrown"
                /\ calls[c].lookups = 0
                /\ calls[c].invoked = 0
                /\ calls[c].execs = <<>>
                /\ calls[c].retries = <<>>)
    /\ [][\A c \in Calls :
            (calls'[c].pc = "thrown" /\ calls'[c] # calls[c]) => store' = store]_vars
    /\ [](\A id \in NodeIds :
            ValidationFailed(id) => invoked[id] = 0 /\ started[id] = 1)
    /\ [](\A id \in NodeIds :
            (ValidationFailed(id) /\ task[id].pc = "done") =>
                /\ statuses[id] = "error"
                /\ results[id] = Failure("ZodError")
                /\ variables[id] = Undef
                /\ stopOnError(cfg) => Descendants(id) \subseteq skippedNodes)
    /\ [](\A id \in NodeIds :
            (ValidationFailed(id) /\ pc = "returned" /\ stopOnError(cfg)) =>
                \A d \in Descendants(id) :
                    statuses[d] = "skipped" /\ started[d] = 0 /\ invoked[d] = 0)

\* the chain has returned: a stored an object, c failed validation on it and
\* c's descendant b was skipped
ValidationThrowsWitness ==
    /\ pc = "returned"
    /\ statuses["a"] = "success"
    /\ ValidationFailed("c")
    /\ results["c"] = Failure("ZodError")
    /\ Descendants("c") = {"b"}
    /\ statuses["b"] = "skipped"

-----------------------------------------------------------------------------
(* Properties of throwing observer callbacks *)

\* the steps of the run whose callbacks return
NextReturning ==
    \/ Start
    \/ LaunchTaskOf({})
    \/ \E id \in NodeIds : AttemptSettleOf({}, id)
    \/ \E id \in NodeIds : WakeOf({}, id)
    \/ \E id \in NodeIds : TaskCatchOf({}, id)
    \/ WaveSettled

(* C19: observer callbacks that throw do not affect execution: every step   *)
(* of a run whose callbacks throw is the step the run takes when they       *)
(* return, so the statuses, the results, the stored outputs, the skipped    *)
(* nodes and the executor invocations are the same.                         *)
CallbacksDoNotAffect == [][NextReturning]_vars

-----------------------------------------------------------------------------
(* Properties of the value executeWorkflow returns *)

\* every declared node that was not skipped has the status success
NonSkippedSucceeded ==
    \A id \in Declared : statuses[id] # "skipped" => statuses[id] = "success"

(* C21: the returned success is true exactly when every non-skipped node    *)
(* has the status success: it is true for a workflow without nodes, whose   *)
(* results and statuses are empty, and for a run that skipped every node,   *)
(* and it is false when a node has the status error.                        *)
WorkflowSuccessFlag ==
    wfResult.returned =>
        /\ wfResult.success <=> NonSkippedSucceeded
        /\ Declared = {} =>
              /\ wfResult.success
              /\ \A id \in NodeIds : statuses[id] = "absent" /\ results[id] = NoResult
        /\ (\A id \in Declared : statuses[id] = "skipped") => wfResult.success
        /\ (\E id \in Declared : statuses[id] = "error") => ~wfResult.success

\* a run of three nodes that skipped every node returned success
WorkflowSuccessFlagWitness ==
    /\ wfResult.returned
    /\ wfResult.success
    /\ Cardinality(Declared) = 3
    /\ \A id \in Declared : statuses[id] = "skipped"

(* C22: whenever the returned success is false, a node has the status      *)
(* error and the error field of the returned value is the message of such   *)
(* a node's failure.                                                        *)
WorkflowErrorCarried ==
    (wfResult.returned /\ ~wfResult.success) =>
        \E id \in Declared :
            /\ statuses[id] = "error"
            /\ wfResult.error = results[id].error

-----------------------------------------------------------------------------
(* Properties of conditional edges and of the statuses *)

(* C23: for every edge with a condition, the executor of the edge's target  *)
(* is invoked only if the edge's source finished with success and returned  *)
(* a nextNodeId equal to the condition.                                     *)
ConditionalEdgeNeedsMatch ==
    \A e \in EdgeSet :
        (e.condition # NoCond /\ invoked[e.to] > 0) =>
            /\ statuses[e.from] = "success"
            /\ results[e.from].nextNodeId = e.condition

\* the status changes the claim allows; "absent" is a node id before the
\* statuses are initialised
StatusMoves ==
    {<<"absent", "idle">>, <<"idle", "running">>, <<"idle", "skipped">>,
     <<"running", "success">>, <<"running", "error">>, <<"running", "skipped">>}

(* C24: every change of a node's status is idle -> running, idle ->         *)
(* skipped, or running -> success, error or skipped: a status never goes    *)
(* back to idle or running, and a status success, error or skipped never    *)
(* changes again.                                                           *)
StatusMonotone ==
    [][\A id \in NodeIds :
          statuses'[id] # statuses[id] => <<statuses[id], statuses'[id]>> \in StatusMoves]_vars

\* a returned run in which one node was skipped from idle and two others
\* went through running to success and to error
StatusMonotoneWitness ==
    /\ wfResult.returned
    /\ \E x \in Declared, y \in Declared, z \in Declared :
          /\ statuses[x] = "success" /\ started[x] = 1
          /\ statuses[y] = "error" /\ started[y] = 1
          /\ statuses[z] = "skipped" /\ started[z] = 0

-----------------------------------------------------------------------------
(* Properties of the waves topologicalSort returns *)

\* the positions <<wave, index>> at which an id stands in the waves
PositionsOf(ws, id) ==
    {p \in (1..Len(ws)) \X (1..Cardinality(NodeIds)) :
        p[2] <= Len(ws[p[1]]) /\ ws[p[1]][p[2]] = id}

(* C26: for a workflow without a cycle topologicalSort returns waves in    *)
(* which every declared node id stands exactly once and no other id        *)
(* stands, and for every edge u->v the wave of u comes strictly before the *)
(* wave of v; these are the waves executeWorkflow runs.                    *)
WavesOrdered ==
    ~HasCycle =>
        LET sorted == topologicalSort(wf)
        IN  /\ ~sorted.threw
            /\ \A id \in NodeIds :
                  Cardinality(PositionsOf(sorted.waves, id)) =
                      IF id \in Declared THEN 1 ELSE 0
            /\ \A e \in EdgeSet :
                  \A p \in PositionsOf(sorted.waves, e.from),
                     q \in PositionsOf(sorted.waves, e.to) : p[1] < q[1]
            /\ Planned => waves = sorted.waves

\* three nodes joined by three edges were planned into three waves
WavesOrderedWitness ==
    /\ Planned
    /\ Len(waves) = 3
    /\ Cardinality(EdgeSet) = 3

\* the nodes with an edge to id
Parents(id) == {e.from : e \in {x \in EdgeSet : x.to = id}}

\* the largest element of a non-empty set of numbers
Largest(S) == CHOOSE m \in S : \A x \in S : x <= m

\* the number of edges of the longest edge path that ends at id and starts at
\* a node without incoming edges (for a workflow without a cycle)
LongestPathTo(id) ==
    LET D[k \in 0..Cardinality(NodeIds)] ==
          [n \in NodeIds |->
              IF Parents(n) = {} \/ k = 0 THEN 0
              ELSE 1 + Largest({D[k-1][p] : p \in Parents(n)})]
    IN  D[Cardinality(NodeIds)][id]

\* two edges of the workflow join the same pair of nodes
HasDuplicateEdge ==
    \E i, j \in 1..Len(wf.edges) :
        i < j /\ wf.edges[i].from = wf.edges[j].from /\ wf.edges[i].to = wf.edges[j].to

(* C35: waves are maximal.  For a workflow without a cycle, a declared node *)
(* stands in wave k (0-based) exactly when the longest edge path that ends  *)
(* at it from a node without incoming edges has k edges, so it stands in    *)
(* the first wave after the waves of all its parents; the edges count as a  *)
(* set of pairs, so duplicate edges between one pair change nothing.        *)
WavesMaximal ==
    ~HasCycle =>
        LET sorted == topologicalSort(wf)
        IN  /\ ~sorted.threw
            /\ \A id \in Declared :
                  \A p \in PositionsOf(sorted.waves, id) :
                      /\ p[1] - 1 = LongestPathTo(id)
                      /\ Parents(id) # {} =>
                            p[1] - 1 = Largest({q[1] : q \in UNION {PositionsOf(sorted.waves, m) :
                                                                      m \in Parents(id)}})
            /\ Planned => waves = sorted.waves

\* c has two edges from a and one from b, b has one from a, and c was
\* planned into the third wave
WavesMaximalWitness ==
    /\ Planned
    /\ HasDuplicateEdge
    /\ Parents("c") = {"a", "b"}
    /\ Parents("b") = {"a"}
    /\ waves = << <<"a">>, <<"b">>, <<"c">> >>

(* C30: a cycle is the only thing that makes topologicalSort and           *)
(* executeWorkflow fail: with an edge whose from or to is not a declared   *)
(* node and no cycle, the declared nodes are planned into waves, the run   *)
(* returns a result and every declared node was executed or skipped.       *)
CycleOnlyFailure ==
    /\ pc = "thrown" => HasCycle /\ topologicalSort(wf).error = CycleError
    /\ (~HasCycle /\ pc # "init") =>
          /\ Planned
          /\ \A id \in Declared : \E i \in 1..Len(waves) : id \in IdsOf(waves[i])
          /\ wfResult.returned => \A id \in Declared : statuses[id] \in FinalStatuses

-----------------------------------------------------------------------------
(* toNodeContext: the object a node is handed, and the context's later     *)
(* writes.  An absent key of the variable map is a key whose value is      *)
(* undefined.                                                              *)

\* getAllVariables handing out the context's own map
getAllVariablesLive(vs) == [object |-> "this.variables", entries |-> vs]

\* { ...this.variables }: a new object with the entries of the map
getAllVariables(vs) == [object |-> "copy", entries |-> vs]

deleteVariable(vs, name) == [vs EXCEPT ![name] = Undef]

clearAll(vs) == [k \in DOMAIN vs |-> Undef]

\* { ...this.variables, ...vars }
mergeVariables(vs, given) ==
    [k \in DOMAIN vs |-> IF k \in DOMAIN given THEN given[k] ELSE vs[k]]

\* the returned object: `shares` says that its variables field is the very
\* object the context's variables field points to
toNodeContext(vs) ==
    LET all == getAllVariables(vs)
    IN  [present |-> TRUE, variables |-> all.entries,
         shares |-> all.object = "this.variables", asked |-> <<>>, answer |-> Undef]

\* the callback reading the node context's own variables
resolveNestedPathOfSnapshot(ctx, vs, path) == resolveNestedPath(ctx.variables, path)

\* this.resolveNestedPath.bind(this): `this` is the execution context, whose
\* variables are vs when the callback is called
resolveNestedPathBound(ctx, vs, path) == resolveNestedPath(vs, path)

\* the returned object after a write of the context that left `written`: a
\* write in place (setVariable, deleteVariable) changes a shared object, a
\* write that assigns this.variables (clearAll, mergeVariables) ends the
\* sharing
afterWrite(ctx, written, inPlace) ==
    IF ~ctx.shares THEN ctx
    ELSE IF inPlace THEN [ctx EXCEPT !.variables = written]
    ELSE [ctx EXCEPT !.shares = FALSE]

\* the values and names the writes are drawn from
SnapValues == {Undef, Str("s"), Obj({<<"a", "x">>})}

SnapNames == {"a", "value"}

SnapPaths == {<<"a">>, <<"value">>, <<"a", "a">>}

ContextWrite(op, name, value, written, inPlace) ==
    /\ pc = "context"
    /\ ctxOps < MaxCtxOps
    /\ ctxOps' = ctxOps + 1
    /\ ctxOp' = [op |-> op, name |-> name, value |-> value]
    /\ variables' = written
    /\ nodeCtx' = afterWrite(nodeCtx, written, inPlace)
    /\ UNCHANGED <<wf, cfg, pc, waves, waveIdx, launchIdx, statuses, results, fired,
                   skippedNodes, task, aborted, wfResult, invoked, started,
                   waveStartVars, waveStartAborted, nodeVars, stale, interp, twin,
                   runner, cacheOp>>

WriteSetVariable ==
    \E name \in SnapNames, value \in SnapValues :
        ContextWrite("setVariable", name, value, setVariable(variables, name, value), TRUE)

WriteStoreNodeOutput ==
    \E nodeId \in NodeIds, output \in SnapValues :
        ContextWrite("storeNodeOutput", nodeId, output,
                     storeNodeOutput(variables, nodeId, output), TRUE)

WriteMergeVariables ==
    \E names \in (SUBSET SnapNames) \ {{}} : \E given \in [names -> SnapValues] :
        ContextWrite("mergeVariables", "", Undef, mergeVariables(variables, given), FALSE)

WriteDeleteVariable ==
    \E name \in SnapNames :
        ContextWrite("deleteVariable", name, Undef, deleteVariable(variables, name), TRUE)

WriteClearAll == ContextWrite("clearAll", "", Undef, clearAll(variables), FALSE)

\* context.toNodeContext(userId, workflowExecutionId): the first call
ToNodeContext ==
    /\ pc = "context"
    /\ ~nodeCtx.present
    /\ nodeCtx' = toNodeContext(variables)
    /\ UNCHANGED <<wf, cfg, pc, waves, waveIdx, launchIdx, statuses, results, fired,
                   skippedNodes, task, variables, aborted, wfResult, invoked, started,
                   waveStartVars, waveStartAborted, ctxOp, ctxOps, nodeVars, stale,
                   interp, twin, runner, cacheOp>>

\* the node calls nodeContext.resolveNestedPath(path)
CallResolveNestedPath ==
    /\ pc = "context"
    /\ nodeCtx.present
    /\ \E path \in SnapPaths :
          nodeCtx' = [nodeCtx EXCEPT !.asked = path,
                         !.answer = resolveNestedPathBound(nodeCtx, variables, path)]
    /\ UNCHANGED <<wf, cfg, pc, waves, waveIdx, launchIdx, statuses, results, fired,
                   skippedNodes, task, variables, aborted, wfResult, invoked, started,
                   waveStartVars, waveStartAborted, ctxOp, ctxOps, nodeVars, stale,
                   interp, twin, runner, cacheOp>>

NextSnapshot ==
    \/ WriteSetVariable
    \/ WriteStoreNodeOutput
    \/ WriteMergeVariables
    \/ WriteDeleteVariable
    \/ WriteClearAll
    \/ ToNodeContext
    \/ CallResolveNestedPath

SpecSnapshot == InitCtx /\ [][NextSnapshot]_vars

(* C27: the variables of the object toNodeContext returned are the         *)
(* context's variables at the call, and no later setVariable,              *)
(* storeNodeOutput, mergeVariables, deleteVariable or clearAll changes an  *)
(* entry of them; every call of the returned resolveNestedPath callback    *)
(* answers from the context's variables as they are at that call.          *)
SnapshotFrozen ==
    [][/\ (~nodeCtx.present /\ nodeCtx'.present) => nodeCtx'.variables = variables
       /\ (nodeCtx.present /\ nodeCtx'.present) => nodeCtx'.variables = nodeCtx.variables
       /\ (nodeCtx'.present /\ <<nodeCtx'.asked, nodeCtx'.answer>> # <<nodeCtx.asked, nodeCtx.answer>>)
             => nodeCtx'.answer = resolveNestedPath(variables, nodeCtx'.asked)]_vars

\* after toNodeContext two writes changed the entry a, and the callback
\* asked for a answered with the new value, not the snapshot's
SnapshotFrozenWitness ==
    /\ nodeCtx.present
    /\ ctxOps = MaxCtxOps
    /\ ctxOp.op \in {"mergeVariables", "clearAll", "deleteVariable"}
    /\ nodeCtx.variables["a"] = Obj({<<"a", "x">>})
    /\ nodeCtx.asked = <<"a">>
    /\ nodeCtx.answer = variables["a"]
    /\ nodeCtx.answer # nodeCtx.variables["a"]

-----------------------------------------------------------------------------
(* interpolate called on a context *)

\* the values the variables a and value are constructed with
InterpValues ==
    {Undef, Str("s"), Num("25"), List(<<"x", "y">>), Obj({<<"value", "w">>})}

InterpStores ==
    {[k \in VarNames |-> IF k = "a" THEN x ELSE IF k = "value" THEN y ELSE Undef] :
        x \in InterpValues, y \in InterpValues}

TemplateParts ==
    {Lit(""), Lit("Hello "), Lit("!"), Ref(<<"a">>), Ref(<<"value">>), Ref(<<"a", "value">>)}

Templates == UNION {[1..n -> TemplateParts] : n \in 0..MaxParts}

\* context.interpolate(template)
CallInterpolate ==
    /\ pc = "context"
    /\ \E template \in Templates :
          interp' = [called |-> TRUE, template |-> template,
                     result |-> interpolate(variables, template)]
    /\ UNCHANGED <<wf, cfg, pc, waves, waveIdx, launchIdx, statuses, results, fired,
                   skippedNodes, task, variables, aborted, wfResult, invoked, started,
                   waveStartVars, waveStartAborted, ctxOp, ctxOps, nodeVars, stale,
                   nodeCtx, twin, runner, cacheOp>>

InitInterpolate == InitContext(InterpStores)

SpecInterpolate == InitInterpolate /\ [][CallInterpolate]_vars

\* the references of a template, and whether its text is one reference and
\* nothing else
ReferencesOf(template) == {i \in 1..Len(template) : template[i].ref}

ExactlyOneReference(template) ==
    /\ Cardinality(ReferencesOf(template)) = 1
    /\ \A i \in 1..Len(template) : i \notin ReferencesOf(template) => template[i].lit = ""

\* the string each value of the stores is coerced to
Coercion(value) ==
    CASE value = Undef                       -> ""
      [] value = Str("s")                    -> "s"
      [] value = Str("w")                    -> "w"
      [] value = Num("25")                   -> "25"
      [] value = List(<<"x", "y">>)          -> "x, y"
      [] value = Obj({<<"value", "w">>})     -> "{\"value\":\"w\"}"

\* the text of a template with every reference replaced by the coercion of
\* what its path resolves to
RECURSIVE Substituted(_)
Substituted(template) ==
    IF template = <<>> THEN ""
    ELSE (IF Head(template).ref
          THEN Coercion(resolveNestedPath(variables, Head(template).path))
          ELSE Head(template).lit) \o Substituted(Tail(template))

(* C28: interpolate of a template that is exactly one {{path}} returns the *)
(* value the path resolves to, with its runtime type (a list, a map, a     *)
(* number, undefined); of any other template it returns a string, the      *)
(* template's text with each reference replaced by the coercion of its     *)
(* value: "" for undefined, the text of a string or number, the elements   *)
(* of a list joined by ", ", the JSON text of a map.                       *)
SingleTemplateUnwrap ==
    interp.called =>
        IF ExactlyOneReference(interp.template)
        THEN \E i \in ReferencesOf(interp.template) :
                /\ interp.result = resolveNestedPath(variables, interp.template[i].path)
                /\ interp.template[i].path = <<"a">> => interp.result = variables["a"]
        ELSE /\ interp.result.kind = "string"
             /\ interp.result.str = Substituted(interp.template)

\* "{{a}}" returned the list stored under a, and not its text
SingleTemplateUnwrapWitness ==
    /\ interp.called
    /\ interp.template = <<Ref(<<"a">>)>>
    /\ variables["a"] = List(<<"x", "y">>)
    /\ interp.result.kind = "array"
    /\ interp.result = variables["a"]

-----------------------------------------------------------------------------
(* executeWorkflow run twice on the same workflow, from the same initial   *)
(* variables, with executors that settle the same way at every call        *)

\* a and b in the first wave, c after one or both of them, or all three in
\* a chain
TwiceEdges == << Edge("a", "c", NoCond), Edge("b", "c", NoCond), Edge("a", "b", NoCond) >>

TwiceRuns ==
    {[wf |-> [nodes |-> <<"a", "b", "c">>, edges |-> EdgesAt(TwiceEdges, S)], cfg |-> c] :
        S \in SUBSET (1..Len(TwiceEdges)),
        c \in [stopOnError : {"undefined", "false"},
               timeout : {0},
               signal : {FALSE},
               maxAttempts : 1..MaxAttempts,
               cache : {FALSE}, ttlMs : {1}, callers : {0},
               throws : {{}}]}

\* what a deterministic executor settles with at each of its calls
FixedSettlements(id) ==
    {Returned(Success(o, NoNext)) : o \in OutputsOf(id)} \cup {Returned(Failure("E"))}

InitTwice ==
    /\ RunStart(TwiceRuns)
    /\ nodeCtx = NoNodeCtx
    /\ interp = NoInterp
    /\ runner = NoRunner
    /\ cacheOp = NoCacheOp
    /\ \E ex \in [NodeIds -> UNION {FixedSettlements(id) : id \in NodeIds}] :
          /\ \A id \in NodeIds : ex[id] \in FixedSettlements(id)
          /\ twin = [NoTwin EXCEPT !.run = 1, !.executors = ex]

\* the executor of a wave member settles, with what it always settles with
SettleAsFixed(id) ==
    /\ launchedAll
    /\ task[id].pc = "exec"
    /\ AttemptSettleWith(cfg.throws, id, twin.executors[id])
    /\ UNCHANGED <<wf, cfg, pc, waves, waveIdx, launchIdx, aborted, wfResult, invoked,
                   started, waveStartVars, waveStartAborted, ctxOp, ctxOps, nodeVars,
                   stale, sideVars>>

\* the first run has returned: its statuses and results are kept, and
\* executeWorkflow is called again with the same workflow and configuration
\* and a new context with the same initial variables
RunAgain ==
    /\ pc = "returned"
    /\ twin.run = 1
    /\ twin' = [twin EXCEPT !.run = 2,
                            !.first = [statuses |-> statuses, results |-> results]]
    /\ pc' = "init"
    /\ waves' = <<>>
    /\ waveIdx' = 0
    /\ launchIdx' = 0
    /\ statuses' = [id \in NodeIds |-> "absent"]
    /\ results' = [id \in NodeIds |-> NoResult]
    /\ fired' = NoFired
    /\ skippedNodes' = {}
    /\ task' = [id \in NodeIds |-> IdleTask]
    /\ variables' = InitialVariables
    /\ wfResult' = NoWfResult
    /\ invoked' = [id \in NodeIds |-> 0]
    /\ started' = [id \in NodeIds |-> 0]
    /\ waveStartVars' = InitialVariables
    /\ waveStartAborted' = [id \in NodeIds |-> FALSE]
    /\ UNCHANGED <<wf, cfg, aborted, ctxOp, ctxOps, nodeVars, stale, nodeCtx, interp,
                   runner, cacheOp>>

NextTwice ==
    \/ Start
    \/ LaunchTask
    \/ \E id \in NodeIds : SettleAsFixed(id)
    \/ \E id \in NodeIds : Wake(id)
    \/ \E id \in NodeIds : TaskCatch(id)
    \/ WaveSettled
    \/ RunAgain

SpecTwice == InitTwice /\ [][NextTwice]_vars

\* the top-level keys a node's output is merged under
MergedKeys(id) ==
    LET r == twin.executors[id].result
    IN  IF r.success /\ r.output.kind = "object" THEN ObjKeys(r.output) ELSE {}

\* the keys merged by two nodes of one wave
RacyKeys ==
    {k \in VarNames :
        \E m \in Declared, n \in Declared :
            /\ m # n
            /\ \E i \in 1..Len(waves) : {m, n} \subseteq IdsOf(waves[i])
            /\ k \in MergedKeys(m) \cap MergedKeys(n)}

\* the top-level keys the inputs of the workflow's nodes read
ReadKeys ==
    UNION {{NodeInput(id)[i].path[1] : i \in {j \in 1..Len(NodeInput(id)) : NodeInput(id)[j].ref}} :
              id \in Declared}

(* C25: two runs of executeWorkflow on the same workflow, from the same    *)
(* initial variables and with deterministic executors, return the same     *)
(* statuses and the same results whatever the order in which the members   *)
(* of a wave complete, when no input reads a top-level key that two nodes  *)
(* of one wave merge.                                                      *)
RunsAgree ==
    (pc = "returned" /\ twin.run = 2 /\ ReadKeys \cap RacyKeys = {}) =>
        /\ statuses = twin.first.statuses
        /\ results = twin.first.results

-----------------------------------------------------------------------------
(* The editor's WorkflowRunner (packages/editor): run() executes the nodes *)
(* one after the other in a flat topological order.  Its edges join       *)
(* declared nodes; the inputs it resolves and the context it stores the    *)
(* outputs in are read by the executors only, whose outcomes are drawn     *)
(* freely.                                                                 *)

EditorEdge(s, t) == [source |-> s, target |-> t]

EditorEdges ==
    << EditorEdge("a", "b"), EditorEdge("a", "c"), EditorEdge("c", "d"),
       EditorEdge("b", "d") >>

EditorWorkflows ==
    {[nodes |-> <<"a", "b", "c", "d">>, edges |-> EdgesAt(EditorEdges, S)] :
        S \in SUBSET (1..Len(EditorEdges))}

\* adjacency.get(id): the targets of id's edges, in edge order
EditorAdjacency(edges, id) ==
    LET F[i \in 0..Len(edges)] ==
          IF i = 0 THEN <<>>
          ELSE IF edges[i].source = id THEN Append(F[i-1], edges[i].target) ELSE F[i-1]
    IN  F[Len(edges)]

\* the loop over the neighbors of the dequeued node
RECURSIVE EditorVisit(_, _, _)
EditorVisit(neighbors, inDegree, queue) ==
    IF neighbors = <<>> THEN [inDegree |-> inDegree, queue |-> queue]
    ELSE LET n == Head(neighbors)
             newDeg == inDegree[n] - 1
         IN  EditorVisit(Tail(neighbors), [inDegree EXCEPT ![n] = newDeg],
                         IF newDeg = 0 THEN Append(queue, n) ELSE queue)

RECURSIVE EditorKahn(_, _, _, _)
EditorKahn(edges, queue, inDegree, sorted) ==
    IF queue = <<>> THEN sorted
    ELSE LET current == Head(queue)
             r == EditorVisit(EditorAdjacency(edges, current), inDegree, Tail(queue))
         IN  EditorKahn(edges, r.queue, r.inDegree, Append(sorted, current))

\* the editor's topologicalSort(nodeIds, edges): a flat order, with the
\* nodes the loop did not reach appended
editorTopologicalSort(nodeIds, edges) ==
    LET inDegree == [id \in {nodeIds[i] : i \in 1..Len(nodeIds)} |->
                        Cardinality({i \in 1..Len(edges) : edges[i].target = id})]
        queue == SelectSeq(nodeIds, LAMBDA id : inDegree[id] = 0)
        sorted == EditorKahn(edges, queue, inDegree, <<>>)
        reached == {sorted[i] : i \in 1..Len(sorted)}
    IN  sorted \o SelectSeq(nodeIds, LAMBDA id : id \notin reached)

\* only the direct children other than the selected one are added
editorSkip(skipped, edges, nodeId, nextNodeId) ==
    skipped \cup {edges[i].target : i \in {j \in 1..Len(edges) :
                      edges[j].source = nodeId /\ edges[j].target # nextNodeId}}

\* what an executor of the editor's registry may settle with
EditorOutcomes(id) ==
    {Returned(Success(Obj({<<"value", id>>}), n)) :
        n \in IF id = "a" THEN {NoNext, "b", "c"} ELSE {NoNext}}
    \cup {Returned(Failure("E")), Rejected("E")}

\* the loop is left: by break, or after the last node
runnerAdvance(r, break) ==
    IF break \/ r.idx = Len(r.executionOrder)
    THEN [r EXCEPT !.pc = "returned"]
    ELSE [r EXCEPT !.pc = "head", !.idx = r.idx + 1]

EditorUnchanged ==
    UNCHANGED <<wf, cfg, pc, waves, waveIdx, launchIdx, statuses, results, fired, skippedNodes,
                task, variables, aborted, wfResult, invoked, started, waveStartVars,
                waveStartAborted, ctxOp, ctxOps, nodeVars, stale, nodeCtx, interp, twin,
                cacheOp>>

\* runner.run(workflow) up to the loop over executionOrder: lines 179-208;
\* `missing` are the nodes whose type has no executor in the registry
RunnerRun ==
    /\ pc = "editor"
    /\ runner.pc = "idle"
    /\ \E w \in EditorWorkflows, stop \in BOOLEAN, missing \in {{}, {"b"}} :
          LET order == editorTopologicalSort(w.nodes, w.edges)
          IN  runner' = [runner EXCEPT
                  !.workflow = w, !.stopOnError = stop, !.missing = missing,
                  !.executionOrder = order, !.idx = 1,
                  !.nodeStatuses = [id \in RunnerIds |->
                                       IF id \in IdsOf(w.nodes) THEN "idle" ELSE "absent"],
                  !.pc = IF order = <<>> THEN "returned" ELSE "head"]
    /\ EditorUnchanged

\* one turn of the loop up to its continue, its break or its await
RunnerIterate ==
    /\ pc = "editor"
    /\ runner.pc = "head"
    /\ LET nodeId == runner.executionOrder[runner.idx]
       IN  runner' =
             IF runner.aborted THEN runnerAdvance(runner, TRUE)
             ELSE IF nodeId \in runner.skippedNodes
             THEN runnerAdvance([runner EXCEPT !.nodeStatuses[nodeId] = "skipped"], FALSE)
             ELSE IF nodeId \in runner.missing
             THEN runnerAdvance([runner EXCEPT !.nodeStatuses[nodeId] = "error",
                                               !.hasError = TRUE],
                                runner.stopOnError)
             ELSE [runner EXCEPT !.nodeStatuses[nodeId] = "running",
                                 !.invoked[nodeId] = @ + 1, !.pc = "await"]
    /\ EditorUnchanged

\* the awaited executor settles: lines 266-318
RunnerSettle ==
    /\ pc = "editor"
    /\ runner.pc = "await"
    /\ LET nodeId == runner.executionOrder[runner.idx]
       IN  \E o \in EditorOutcomes(nodeId) :
             runner' =
               IF ~o.threw /\ o.result.success
               THEN runnerAdvance(
                        [runner EXCEPT
                            !.nodeOutputs = @ \cup {nodeId},
                            !.nodeStatuses[nodeId] = "success",
                            !.nextNodeId[nodeId] = o.result.nextNodeId,
                            !.skippedNodes =
                                IF o.result.nextNodeId # NoNext
                                THEN editorSkip(@, runner.workflow.edges, nodeId,
                                                o.result.nextNodeId)
                                ELSE @],
                        FALSE)
               ELSE runnerAdvance([runner EXCEPT !.nodeStatuses[nodeId] = "error",
                                                 !.hasError = TRUE],
                                  runner.stopOnError)
    /\ EditorUnchanged

\* runner.abort(), called while run() awaits an executor
RunnerAbort ==
    /\ pc = "editor"
    /\ runner.pc = "await"
    /\ ~runner.aborted
    /\ runner' = [runner EXCEPT !.aborted = TRUE]
    /\ EditorUnchanged

InitEditor ==
    /\ wf = [nodes |-> <<>>, edges |-> <<>>]
    /\ cfg = [stopOnError |-> "undefined", timeout |-> 0, signal |-> FALSE,
              maxAttempts |-> 1, cache |-> FALSE, ttlMs |-> 1, callers |-> 0,
              throws |-> {}]
    /\ pc = "editor"
    /\ waves = <<>>
    /\ waveIdx = 0
    /\ launchIdx = 0
    /\ statuses = [id \in NodeIds |-> "absent"]
    /\ results = [id \in NodeIds |-> NoResult]
    /\ fired = NoFired
    /\ skippedNodes = {}
    /\ task = [id \in NodeIds |-> IdleTask]
    /\ variables = [k \in VarNames |-> Undef]
    /\ aborted = FALSE
    /\ wfResult = NoWfResult
    /\ invoked = [id \in NodeIds |-> 0]
    /\ started = [id \in NodeIds |-> 0]
    /\ waveStartVars = InitialVariables
    /\ waveStartAborted = [id \in NodeIds |-> FALSE]
    /\ ctxOp = NoCtxOp
    /\ ctxOps = 0
    /\ calls = NoCalls
    /\ store = EmptyStore
    /\ now = 0
    /\ stale = NoStale
    /\ SideIdle

NextEditor ==
    \/ RunnerRun
    \/ RunnerIterate
    \/ RunnerSettle
    \/ RunnerAbort

SpecEditor == InitEditor /\ [][NextEditor]_vars

\* the direct children of p other than the one its nextNodeId names
NonSelectedChildren(p) ==
    {e.target : e \in {x \in {runner.workflow.edges[i] : i \in 1..Len(runner.workflow.edges)} :
                          x.source = p /\ x.target # runner.nextNodeId[p]}}

\* the non-selected branches of p: those children and every node all of
\* whose incoming edges come from the branches
NonSelectedBranches(p) ==
    LET E == {runner.workflow.edges[i] : i \in 1..Len(runner.workflow.edges)}
        B[k \in 0..Cardinality(RunnerIds)] ==
          IF k = 0 THEN NonSelectedChildren(p)
          ELSE B[k-1] \cup {n \in RunnerIds :
                              /\ \E e \in E : e.target = n
                              /\ \A e \in E : e.target = n => e.source \in B[k-1]}
    IN  B[Cardinality(RunnerIds)]

(* C29: when the editor's run has returned, for every node that returned a *)
(* nextNodeId, no node of its non-selected branches (a direct child other  *)
(* than nextNodeId, or a node reachable only through such a child) had its *)
(* executor invoked, and each of them has the status skipped.              *)
EditorSkipsBranches ==
    runner.pc = "returned" =>
        \A p \in RunnerIds :
            runner.nextNodeId[p] # NoNext =>
                \A n \in NonSelectedBranches(p) :
                    /\ runner.invoked[n] = 0
                    /\ runner.nodeStatuses[n] = "skipped"

-----------------------------------------------------------------------------
(* Two executeNode calls under one retry configuration: the executor of    *)
(* call 1 reports its failures by returning {success:false, error:m}, the  *)
(* executor of call 2 by throwing an Error with message m                  *)

\* the messages a failing attempt carries; "" is also what the loop reads
\* from a failure result without an error
FailureMessages == {"E", ""}

\* the retryOn predicates a configuration is drawn with
RetryOnValues ==
    {NoRetryOn} \cup {[configured |-> TRUE, accepts |-> S] : S \in SUBSET FailureMessages}

PairConfigs ==
    [cache : {FALSE}, ttlMs : {1}, maxAttempts : 0..MaxAttempts,
     timeout : {0}, signal : {FALSE}, callers : {2},
     stopOnError : {"undefined"}, throws : {{}}, retryOn : RetryOnValues]

\* what the executor of call c may settle with
VariantOutcomes(c) ==
    {Returned(Success(Obj({<<"value", "x">>}), NoNext))}
    \cup (IF c = 1 THEN {Returned(Failure(m)) : m \in FailureMessages}
                   ELSE {Rejected(m) : m \in FailureMessages})

VariantSettles(c) == ExecutorSettlesWith(c, VariantOutcomes(c))

InitPair == NodeStart(PairConfigs)

NextPair ==
    \/ \E c \in Calls : NodeCall(c)
    \/ \E c \in Calls : VariantSettles(c)
    \/ \E c \in Calls : NodeWake(c)

SpecPair == InitPair /\ [][NextPair]_vars

\* attempt k went the same way in both calls: both succeeded with the same
\* result, or call 1 returned the failure that call 2 threw
SameOutcome(k) ==
    LET r == calls[1].execs[k]
        t == calls[2].execs[k]
    IN  /\ r.state = "settled" /\ t.state = "settled"
        /\ \/ r.result.success /\ t = r
           \/ /\ ~r.threw /\ ~r.result.success
              /\ t.threw /\ t.result.error = r.result.error

\* the attempts both calls made went the same way
SameScript ==
    \A k \in 1..Len(calls[1].execs) :
        k <= Len(calls[2].execs) => SameOutcome(k)

BothReturned == calls[1].pc = "returned" /\ calls[2].pc = "returned"

(* C31: returning {success:false, error:m} and throwing an Error with       *)
(* message m are the same to the retry loop: whenever the two calls have    *)
(* returned and their attempts went the same way, they made the same number *)
(* of executor invocations, the same onRetry calls and returned the same    *)
(* result, whatever maxAttempts, retryOn and m (the empty string included). *)
ThrowReturnEquivalent ==
    (BothReturned /\ SameScript) =>
        /\ calls[1].invoked = calls[2].invoked
        /\ calls[1].retries = calls[2].retries
        /\ calls[1].result = calls[2].result

\* the same, for the failures that carry a non-empty message
NonEmptyFailuresEquivalent ==
    (/\ BothReturned
     /\ SameScript
     /\ \A k \in 1..Len(calls[1].execs) :
           ~calls[1].execs[k].result.success => calls[1].execs[k].result.error # "")
    => /\ calls[1].invoked = calls[2].invoked
       /\ calls[1].retries = calls[2].retries
       /\ calls[1].result = calls[2].result

-----------------------------------------------------------------------------
(* executeNode calls of one caller under retry configurations with and     *)
(* without a retryOn predicate, a timeout and a signal                     *)

\* the predicates above and one that returns true for every error
RetryPredicates ==
    RetryOnValues
    \cup {[configured |-> TRUE,
           accepts |-> FailureMessages \cup {"Execution aborted"}
                       \cup {TimeoutMessage(t) : t \in TimeoutValues}]}

RetryConfigs ==
    [cache : {FALSE}, ttlMs : {1}, maxAttempts : 0..MaxAttempts,
     timeout : TimeoutValues, signal : BOOLEAN, callers : {1},
     stopOnError : {"undefined"}, throws : {{}}, retryOn : RetryPredicates]

\* what the executor may settle with, a thrown Error('') included
RetryOutcomes == ExecutorOutcomes \cup {Rejected("")}

InitRetry == NodeStart(RetryConfigs)

NextRetry ==
    \/ \E c \in Calls : NodeCall(c)
    \/ \E c \in Calls : ExecutorSettlesWith(c, RetryOutcomes)
    \/ \E c \in Calls : TimerFires(c)
    \/ NodeAbort
    \/ \E c \in Calls : NodeWake(c)

SpecRetry == InitRetry /\ [][NextRetry]_vars

\* the attempt numbers 1..n in order
UpTo(n) == [k \in 1..n |-> k]

(* C32 as stated: in every executeNode call that has returned, the number   *)
(* of onRetry calls is the number of executor invocations minus one.        *)
OnRetryCountAsStated ==
    \A c \in Calls :
        calls[c].pc = "returned" => Len(calls[c].retries) = calls[c].invoked - 1

(* C32 amended: onRetry is called with the attempt numbers in order, after  *)
(* a failed attempt and before the next one.  While an attempt is pending   *)
(* there is one onRetry call fewer than invocations; during the backoff     *)
(* sleep there are as many.  A call that invoked the executor returns with  *)
(* one onRetry call fewer than invocations, unless the signal was found     *)
(* aborted when the announced attempt was due: then the call returns the    *)
(* abort failure and the last onRetry call is followed by no invocation.    *)
OnRetryBeforeRetry ==
    \A c \in Calls :
        LET call == calls[c]
            n == Len(call.retries)
        IN  /\ call.retries = UpTo(n)
            /\ call.pc = "race" => n = call.invoked - 1
            /\ call.pc = "sleep" => n = call.invoked
            /\ (call.pc = "returned" /\ call.invoked >= 1) =>
                  \/ n = call.invoked - 1
                  \/ /\ n = call.invoked
                     /\ cfg.signal /\ aborted
                     /\ call.result = Failure("Execution aborted")
            /\ (call.pc = "returned" /\ call.invoked >= 1 /\ ~aborted) =>
                  n = call.invoked - 1

\* a call returned after the signal was aborted during its backoff sleep or
\* during the attempt before it: onRetry(1) was the last thing that happened
\* before the abort failure
OnRetryBeforeRetryWitness ==
    \E c \in Calls :
        /\ calls[c].pc = "returned"
        /\ calls[c].invoked = 1
        /\ calls[c].retries = <<1>>
        /\ calls[c].result = Failure("Execution aborted")

\* the message of the error attempt k of the call ended with: the timer's,
\* the abort listener's, or the one the executor returned or threw
AttemptMessage(call, k) ==
    IF call.races[k] = "timer" THEN TimeoutMessage(cfg.timeout)
    ELSE IF call.races[k] = "abort" THEN "Execution aborted"
    ELSE call.execs[k].result.error

\* attempt k ended with an error: its race was rejected, or the executor
\* returned a failure result that carries an error message
FailedWithError(call, k) ==
    \/ call.races[k] # "executor"
    \/ call.execs[k].threw
    \/ ~call.execs[k].result.success /\ call.execs[k].result.error # ""

\* retryOn is configured and returns false for the error of attempt k
Refused(call, k) == retryOn.configured /\ AttemptMessage(call, k) \notin retryOn.accepts

Running(call) == {k \in 1..Len(call.execs) : call.execs[k] = InFlight}

(* C39 as stated: within one executeNode call at most one invocation of the *)
(* executor is in flight at any time.                                       *)
OneInvocationInFlight ==
    \A c \in Calls : Cardinality(Running(calls[c])) <= 1

(* C39 amended: within one executeNode call at most one invocation of the   *)
(* executor is awaited at any time: every other invocation still running    *)
(* belongs to an earlier attempt whose race the timeout timer or the abort  *)
(* listener settled, and without timeout and signal there is none.          *)
OneInvocationAwaited ==
    \A c \in Calls :
        LET call == calls[c]
        IN  /\ \A k \in Running(call) :
                  \/ raceOpen(call, k)
                  \/ k <= Len(call.races) /\ call.races[k] \in {"timer", "abort"}
            /\ Cardinality({k \in Running(call) : raceOpen(call, k)}) <= 1
            /\ (cfg.timeout = 0 /\ ~cfg.signal) => Cardinality(Running(call)) <= 1

\* the second attempt's invocation is awaited while the invocation of the
\* first, timed-out attempt is still running
OneInvocationAwaitedWitness ==
    \E c \in Calls :
        /\ calls[c].pc = "race"
        /\ calls[c].attempt = 2
        /\ calls[c].races = <<"timer">>
        /\ Running(calls[c]) = {1, 2}

-----------------------------------------------------------------------------
(* Two callers that share one configuration, and so one cache store, as    *)
(* the tasks of a wave do (extractBaseConfig hands every node the same      *)
(* config.cache).  Each caller executes its own node definition.            *)

SharedConfigs ==
    [cache : {TRUE}, ttlMs : {1}, maxAttempts : {1},
     timeout : {0}, signal : {FALSE}, callers : {2},
     stopOnError : {"undefined"}, throws : {{}}]

\* the type of the node definition caller c passes to executeNode
NodeTypeOf(c) == IF c = 1 THEN "node_a" ELSE "node_b"

\* what the executor of caller c's node may settle with: its successes name
\* the node that produced them
NodeOutcomes(c) ==
    {Returned(Success(Obj({<<"value", NodeTypeOf(c)>>}), NoNext)), Returned(Failure("E"))}

NodeSettles(c) == ExecutorSettlesWith(c, NodeOutcomes(c))

InitShared == NodeStart(SharedConfigs)

NextShared ==
    \/ \E c \in Calls : NodeCall(c)
    \/ \E c \in Calls : CacheGetReturns(c)
    \/ \E c \in Calls : NodeSettles(c)
    \/ \E c \in Calls : CacheSetReturns(c)
    \/ Tick

SpecShared == InitShared /\ [][NextShared]_vars

(* C38: with one cache store shared by several nodes, a cache hit only     *)
(* returns a result the same node definition produced: a call served from   *)
(* the cache gets an output of its own node's executor.                     *)
CacheHitFromSameNode ==
    \A c \in Calls :
        CacheHit(c) => calls[c].result.output = Obj({<<"value", NodeTypeOf(c)>>})

\* executeNode has not returned or thrown yet
Pending(c) == calls[c].pc \in {"get", "race", "sleep", "set"}

(* C40 as stated: with the cache enabled the executor runs at most once per *)
(* cache key also when two calls with the same key are in flight together:  *)
(* of two such calls at most one has invoked the executor.                  *)
OneInvocationPerKey ==
    \A c, d \in Calls :
        (c # d /\ Pending(c) /\ Pending(d) /\ calls[c].key = calls[d].key)
            => calls[c].invoked + calls[d].invoked <= 1

(* C40 amended: with the cache enabled the executor is invoked only by a    *)
(* call whose own lookup missed, and a lookup misses only when the store    *)
(* holds no unexpired entry under the key at that moment; so a call that    *)
(* looks the key up after an earlier call's result was stored, and before   *)
(* it expires, does not invoke the executor.                                *)
InvokedOnlyAfterMiss ==
    /\ [][\A c \in Calls :
            (Lookup(c) /\ ~calls'[c].got.present) => ~Unexpired(calls'[c].key)]_vars
    /\ [](\A c \in Calls :
            (cfg.cache /\ calls[c].invoked >= 1)
                => calls[c].lookups = 1 /\ ~calls[c].got.present)

\* two calls with the same key were in flight together, both missed, both
\* invoked the executor, and the entry one of them stored is unexpired
InvokedOnlyAfterMissWitness ==
    /\ calls[1].key = calls[2].key
    /\ calls[1].invoked = 1 /\ calls[2].invoked = 1
    /\ calls[1].pc = "race"
    /\ calls[2].pc = "returned" /\ calls[2].result.success
    /\ Unexpired(calls[2].key)

-----------------------------------------------------------------------------
(* The MemoryCacheStore called directly.  get, set and delete contain no   *)
(* await, so each call runs to its end when it is made and concurrent       *)
(* callers only interleave whole calls.  cacheOp keeps the call made last   *)
(* and, per key, the most recent set or delete.                             *)

StoreConfigs ==
    [cache : {TRUE}, ttlMs : {1}, maxAttempts : {1},
     timeout : {0}, signal : {FALSE}, callers : {0},
     stopOnError : {"undefined"}, throws : {{}}]

\* the values callers store
StoreValues == {Success(Obj({<<"value", v>>}), NoNext) : v \in {"x", "y"}}

\* store.get(key): lines 15-25
StoreGet ==
    /\ pc = "node"
    /\ \E key \in CacheKeys :
          LET g == cacheGet(store, key, now)
          IN  /\ store' = g.store
              /\ cacheOp' = [cacheOp EXCEPT !.op = "get", !.key = key, !.at = now,
                                            !.returned = g.value]
    /\ UNCHANGED <<cfg, aborted, calls, now, wfVars, ctxVars, nodeCtx, interp, twin, runner>>

\* store.set(key, value, ttlMs): lines 27-32
StoreSet ==
    /\ pc = "node"
    /\ \E key \in CacheKeys, value \in StoreValues, ttlMs \in 0..MaxClock :
          /\ store' = cacheSet(store, key, value, ttlMs, now)
          /\ cacheOp' = [cacheOp EXCEPT
                !.op = "set", !.key = key, !.at = now, !.returned = NoResult,
                !.last[key] = [written |-> TRUE, value |-> value, at |-> now,
                               ttlMs |-> ttlMs]]
    /\ UNCHANGED <<cfg, aborted, calls, now, wfVars, ctxVars, nodeCtx, interp, twin, runner>>

\* store.delete(key): lines 34-36
StoreDelete ==
    /\ pc = "node"
    /\ \E key \in CacheKeys :
          /\ store' = cacheDelete(store, key)
          /\ cacheOp' = [cacheOp EXCEPT
                !.op = "delete", !.key = key, !.at = now, !.returned = NoResult,
                !.last[key] = NoCacheOp.last[key]]
    /\ UNCHANGED <<cfg, aborted, calls, now, wfVars, ctxVars, nodeCtx, interp, twin, runner>>

InitStore == NodeStart(StoreConfigs)

NextStore ==
    \/ StoreGet
    \/ StoreSet
    \/ StoreDelete
    \/ Tick

SpecStore == InitStore /\ [][NextStore]_vars

\* at time t the most recent set of key k is not older than its TTL
Fresh(k, t) ==
    /\ cacheOp.last[k].written
    /\ t - cacheOp.last[k].at <= cacheOp.last[k].ttlMs

(* C37: get(key) returns the value of the most recent set(key, v, ttlMs)    *)
(* while that entry is not older than its TTL, and returns absent and       *)
(* removes the entry once it is older; after delete(key) the key is absent; *)
(* whatever the order of get, set and delete calls, a value that get        *)
(* returns is never older than its TTL.                                     *)
StoreHonoursTtl ==
    /\ \A k \in CacheKeys :
          /\ (cacheOp.op = "get" /\ cacheOp.key = k) =>
                IF Fresh(k, cacheOp.at)
                THEN cacheOp.returned = cacheOp.last[k].value
                ELSE ~cacheOp.returned.present /\ ~store[k].present
          /\ (cacheOp.op = "delete" /\ cacheOp.key = k) => ~store[k].present
          /\ ~cacheOp.last[k].written => ~store[k].present
          /\ store[k].present =>
                /\ store[k].value = cacheOp.last[k].value
                /\ store[k].expireAt = cacheOp.last[k].at + cacheOp.last[k].ttlMs
    /\ cacheOp.returned.present =>
          /\ cacheOp.op = "get"
          /\ Fresh(cacheOp.key, cacheOp.at)

\* a get that came exactly ttlMs after the set and returned its value
StoreHonoursTtlWitness ==
    /\ cacheOp.op = "get"
    /\ cacheOp.returned.present
    /\ cacheOp.last[cacheOp.key].ttlMs >= 1
    /\ cacheOp.at = cacheOp.last[cacheOp.key].at + cacheOp.last[cacheOp.key].ttlMs

-----------------------------------------------------------------------------
(* The observer callbacks of a workflow run *)

\* the number of onNodeComplete and onNodeError calls made for the node
Outcomes(id) == fired[id].complete + fired[id].error

(* C34: for every node whose task is started, onNodeStart fires exactly     *)
(* once and before the executor is invoked, and afterwards exactly one of   *)
(* onNodeComplete (status success) and onNodeError (status error) fires,    *)
(* exactly once; no callback fires for a skipped node.                      *)
CallbacksOncePerNode ==
    \A id \in NodeIds :
        /\ started[id] <= 1
        /\ invoked[id] >= 1 => started[id] = 1
        /\ Outcomes(id) <= 1
        /\ Outcomes(id) = 1 => started[id] = 1
        /\ fired[id].complete = 1 => statuses[id] = "success"
        /\ fired[id].error = 1 => statuses[id] = "error"
        /\ (started[id] = 1 /\ task[id].pc = "done") => Outcomes(id) = 1
        /\ statuses[id] = "skipped" => started[id] = 0 /\ Outcomes(id) = 0

\* a returned run in which a node succeeded after onNodeStart and one
\* onNodeComplete call, and another node was skipped without any call
CallbacksOncePerNodeSeen ==
    /\ pc = "returned"
    /\ \E id \in NodeIds :
          /\ statuses[id] = "success"
          /\ started[id] = 1 /\ fired[id] = [complete |-> 1, error |-> 0]
    /\ \E id \in NodeIds :
          /\ statuses[id] = "skipped"
          /\ started[id] = 0 /\ Outcomes(id) = 0

-----------------------------------------------------------------------------
(* Runs under a configured timeout whose executors may never settle.  The  *)
(* event loop is fair to what it owns: the synchronous steps of             *)
(* executeWorkflow, the continuations of settled promises, the backoff      *)
(* sleeps and the sentinels of a race.  Nothing is assumed of an executor.  *)

\* a wave of one node followed by a wave of two
Fork == [nodes |-> <<"a", "b", "c">>,
         edges |-> << Edge("a", "b", NoCond), Edge("a", "c", NoCond) >>]

LiveRuns ==
    {[wf |-> w, cfg |-> c] :
        w \in {Single, Fork},
        c \in {x \in Configs : x.timeout # 0}}

InitLive == InitRun(LiveRuns)

\* what the event loop runs by itself once it is ready: the synchronous
\* steps of executeWorkflow, a sentinel of a race, the end of a backoff
\* sleep, the catch block of a task
EngineStep ==
    \/ Start
    \/ LaunchTask
    \/ WaveSettled
    \/ \E id \in NodeIds : SentinelSettles(id)
    \/ \E id \in NodeIds : Wake(id)
    \/ \E id \in NodeIds : TaskCatch(id)

NextLive ==
    \/ EngineStep
    \/ \E id \in NodeIds : AttemptSettle(id)
    \/ Abort

SpecLive == InitLive /\ [][NextLive]_vars /\ WF_vars(EngineStep)

(* C36: with cfg.timeout set and maxAttempts finite, executeWorkflow        *)
(* eventually returns a result for every workflow without a cycle, even     *)
(* when executors never settle: the run reaches its return with no attempt  *)
(* of any node still awaited, each one ended by its executor or by a        *)
(* sentinel of its own race, and with every wave barrier passed.            *)
TimeoutUnblocksRun ==
    ~HasCycle =>
        <>(/\ pc = "returned"
           /\ wfResult.returned
           /\ \A id \in NodeIds : task[id].pc # "exec")

\* a returned run in which the last attempt of a retried node was ended by
\* the timer
TimeoutUnblocksRunWitness ==
    /\ pc = "returned"
    /\ \E id \in NodeIds :
          /\ invoked[id] = cfg.maxAttempts
          /\ cfg.maxAttempts >= 2
          /\ results[id] = Failure(TimeoutMessage(cfg.timeout))

====
